---- MODULE Spec2Model ----
(***************************************************************************)
(* Model of the Tenable TVM health-check core: the GapAnalyzer             *)
(* (analyzers/gap_analyzer.py), the MaturityEngine                         *)
(* (core/maturity_engine.py), the RecommendationEngine                     *)
(* (core/recommendation_engine.py) and AssessmentService.run               *)
(* (services/assessment_service.py) with the narrative fallback of         *)
(* services/ai_narrative.py.                                               *)
(*                                                                         *)
(* Four specifications: Spec (one analyzer, its checks and the engines),   *)
(* EngineSpec (the engines on any findings list), ServiceSpec (repeated    *)
(* AssessmentService.run calls), EvidenceSpec (_truncate_evidence on any   *)
(* list of names).                                                         *)
(*                                                                         *)
(* Conventions.                                                            *)
(*  - A Python dict is a TLA+ record; d.get(k, dflt) is Get(d, k, dflt).   *)
(*  - None is the string "None".                                           *)
(*  - A timestamp field is a record [k |-> kind, day |-> n]: kind "iso" is *)
(*    a parseable timezone-aware ISO string falling on day n; "none" is    *)
(*    None, "empty" the empty string, "bad" an unparseable string,         *)
(*    "naive" an ISO string without offset, "num" a non-zero number.       *)
(*  - Percentages are integers in tenths of a percent (round(x, 1) * 10).  *)
(*  - Scores are integers in thousandths before rounding and in hundredths *)
(*    after round(x, 2).                                                   *)
(*  - A Finding id "F-007" is the digit sequence <<0, 0, 7>>.              *)
(*  - An unrounded percentage n / total * 100 is the pair num, den.        *)
(***************************************************************************)
EXTENDS Integers, Sequences, FiniteSets, TLC

VARIABLES
    scanners, assets, scans, credentials, networks,  \* GapAnalyzer inputs
    now,          \* the day datetime.now() falls on
    findings,     \* GapAnalyzer.findings (the list object the run returns)
    counter,      \* GapAnalyzer._counter
    pc,           \* position in run_all_checks / AssessmentService.run
    calls,        \* completed run_all_checks calls on this analyzer
    returned,     \* the list each completed call returned, oldest first
    metrics,      \* the metrics dict handed to MaturityEngine
    score, level, \* MaturityEngine.calculate's result
    recs,         \* RecommendationEngine.generate's result
    client,       \* the collections the data source (TenableClient) holds
    ai,           \* AINarrativeEngine: enabled, and how the provider call ended
    summary,      \* the AssessmentSummary of AssessmentService.run
    steps,        \* the steps completed so far in this run, oldest first
    history,      \* what each completed AssessmentService.run returned, oldest
                  \* first, with the data it was collected from
    name_list,    \* a list of names handed to _truncate_evidence
    evidence_text \* the evidence string it returned

vars == <<scanners, assets, scans, credentials, networks, now, findings,
          counter, pc, calls, returned, metrics, score, level, recs,
          client, ai, summary, steps, history, name_list, evidence_text>>

truncation == <<name_list, evidence_text>>

service == <<client, ai, summary, history>>

inputs == <<scanners, assets, scans, credentials, networks>>

----------------------------------------------------------------------------
(* Bounds of the model *)

MaxScanners == 2
MaxScans == 2
MaxAssets == 2
MaxCredentials == 2
MaxNetworks == 2
MaxCalls == 2
MaxFindings == 3
MaxGroup == 4
MaxRuns == 2
MaxItems == 6

----------------------------------------------------------------------------
(* Generic helpers *)

Get(d, k, dflt) == IF k \in DOMAIN d THEN d[k] ELSE dflt

SeqsUpTo(S, n) == UNION {[1..k -> S] : k \in 0..n}

Repl(x, n) == [i \in 1..n |-> x]

Min(a, b) == IF a < b THEN a ELSE b

Max(a, b) == IF a > b THEN a ELSE b

Take(s, n) == SubSeq(s, 1, Min(n, Len(s)))

\* Python's round() of the exact quotient num/den to an integer: half to even.
RoundHalfEven(num, den) ==
    LET q == num \div den
        r == num % den
    IN  IF 2 * r > den THEN q + 1
        ELSE IF 2 * r < den THEN q
        ELSE IF q % 2 = 0 THEN q ELSE q + 1

\* round(n / total * 100, 1), in tenths of a percent. The float result equals
\* this exact rounding for every total that is not a multiple of 80.
Pct1(n, total) == RoundHalfEven(n * 1000, total)

----------------------------------------------------------------------------
(* models/assessment.py: the enumerations *)

Critical == "critical"
High == "high"
Medium == "medium"
Low == "low"
Info == "info"
Severity == {Critical, High, Medium, Low, Info}

SCANNER_HEALTH == "Scanner Health"
SCAN_POLICY == "Scan Policy"
CREDENTIAL_COVERAGE == "Credential Coverage"
ASSET_COVERAGE == "Asset Coverage"
TAG_MANAGEMENT == "Tag Management"
PROGRAM_MATURITY == "Program Maturity"
FindingCategory == {SCANNER_HEALTH, SCAN_POLICY, CREDENTIAL_COVERAGE,
                    ASSET_COVERAGE, TAG_MANAGEMENT, PROGRAM_MATURITY}

MaturityLevel == {"Initial", "Developing", "Defined", "Managed", "Optimized"}

----------------------------------------------------------------------------
(* Names and evidence strings (gap_analyzer.py lines 6-27) *)

\* Names the model draws from. A name is classified, not spelled out: TLC
\* does not look inside a string.
BlankNames == {"", " "}
UuidNames == {"123e4567-e89b-12d3-a456-426614174000",
              "123e4567-e89b-12d3-a456-426614174000-scan"}

\* A finding's evidence, title and description are f-strings: the model keeps
\* the fixed text (or its kind) and the values interpolated into it.
Evidence(kind, names, n) == [kind |-> kind, names |-> names, n |-> n]

Title(text, nums, names) == [text |-> text, nums |-> nums, names |-> names]

Description(nums, names, types) == [nums |-> nums, names |-> names, types |-> types]

\* Mutant: only blank names are held back.
_is_readable_nameBlankOnly(name) ==
    IF name \in BlankNames THEN FALSE
    ELSE TRUE

_is_readable_name(name) ==
    IF name \in BlankNames THEN FALSE
    ELSE IF name \in UuidNames THEN FALSE
    ELSE TRUE

_truncate_evidence(items, max_items) ==
    LET readable == SelectSeq(items, _is_readable_name)
        total == Len(items)
        sample == Take(readable, max_items)
        remaining == total - Len(sample)
    IN  IF readable = <<>>
        THEN Evidence("count", <<>>, total)       \* "N items (names not available)"
        ELSE IF remaining > 0
             THEN Evidence("sample_more", sample, remaining)  \* "a, b (+ N more)"
             ELSE Evidence("sample", sample, 0)               \* "a, b"

Names(s) == [i \in 1..Len(s) |-> s[i].name]

----------------------------------------------------------------------------
(* Truthiness of the fields the checks read *)

\* bool(d.get(k)) for a field holding True or False
IsTrue(d, k) == k \in DOMAIN d /\ d[k] = TRUE

\* d.get(k) is False (identity test: an absent key gives None, not False)
IsFalse(d, k) == k \in DOMAIN d /\ d[k] = FALSE

\* bool(d.get(k)) for a field holding a string or None
IsText(d, k) == k \in DOMAIN d /\ d[k] \notin {"", "None"}

\* bool(t) for a timestamp value
TsTruthy(t) == t.k \notin {"none", "empty"}

NoTs == [k |-> "none"]

----------------------------------------------------------------------------
(* GapAnalyzer._add (gap_analyzer.py lines 372-384) *)

RECURSIVE Digits(_)
Digits(n) == IF n < 10 THEN <<n>> ELSE Append(Digits(n \div 10), n % 10)

\* f"{n:03d}": at least three digits, zero padded
FormatId(n) ==
    LET d == Digits(n)
    IN  IF Len(d) >= 3 THEN d ELSE Repl(0, 3 - Len(d)) \o d

RECURSIVE IdNumber(_)
IdNumber(id) ==
    IF id = <<>> THEN 0
    ELSE 10 * IdNumber(SubSeq(id, 1, Len(id) - 1)) + id[Len(id)]

\* Mutant: the counter is not advanced.
NextCounterStuck(c) == c

NextCounter(c) == c + 1

_add(self, title, category, severity, description, recommendation, effort, evidence) ==
    LET c == NextCounter(self.counter)
    IN  [self EXCEPT
            !.counter = c,
            !.findings = Append(@, [id |-> FormatId(c),
                                    title |-> title,
                                    category |-> category,
                                    severity |-> severity,
                                    description |-> description,
                                    evidence |-> evidence,
                                    recommendation |-> recommendation,
                                    effort |-> effort])]

\* An exception leaves the check: s["name"] on a record without the key is a
\* KeyError, a division by a length of zero a ZeroDivisionError
Raise(self, what) == [self EXCEPT !.raised = what]

AllNamed(s) == \A i \in 1..Len(s) : "name" \in DOMAIN s[i]

----------------------------------------------------------------------------
(* The eight checks (gap_analyzer.py lines 56-370) *)

IsOffline(s) == Get(s, "status", "None") # "on"

_check_scanner_health(self) ==
    LET offline == SelectSeq(self.scanners, IsOffline)
    IN  IF offline = <<>> THEN self
        ELSE IF ~AllNamed(offline) THEN Raise(self, "KeyError")
        ELSE _add(self, Title("Scanner(s) Offline", <<Len(offline)>>, <<>>),
                  SCANNER_HEALTH, High,
                  Description(<<>>, <<>>, {}),
                  "Restore offline scanners and verify connectivity.",
                  "medium",
                  _truncate_evidence(Names(offline), 5))

\* Mutant: the linking check reads the status field, as the health check does.
IsUnlinkedByStatus(s) == Get(s, "status", "None") # "on"

IsUnlinked(s) == ~IsTrue(s, "linked")

_check_scanner_linking(self) ==
    LET unlinked == SelectSeq(self.scanners, IsUnlinked)
    IN  IF unlinked = <<>> THEN self
        ELSE IF ~AllNamed(unlinked) THEN Raise(self, "KeyError")
        ELSE _add(self, Title("Scanner(s) Not Linked to TVM", <<Len(unlinked)>>, <<>>),
                  SCANNER_HEALTH, Critical,
                  Description(<<>>, <<>>, {}),
                  "Re-link scanners using a valid Linking Key from Tenable.io.",
                  "low",
                  _truncate_evidence(Names(unlinked), 5))

IsGhost(s) == IsTrue(s, "is_ghost")

IsActive(s) == ~IsTrue(s, "is_ghost")

LacksCredentials(s) == ~IsTrue(s, "credential_enabled")

\* Mutant: a small share of untagged assets is informational.
TagSeverityInfo(pct) == IF pct < 500 THEN Info ELSE High

\* Mutant: the two branches swapped.
UnauthSeveritySwapped(pct) == IF pct > 500 THEN High ELSE Critical

\* Severity.CRITICAL if pct > 50 else Severity.HIGH, pct in tenths
UnauthSeverity(pct) == IF pct > 500 THEN Critical ELSE High

GhostFinding(self) ==
    LET ghosts == SelectSeq(self.scans, IsGhost)
        total == Len(self.scans)
        ghost_pct == Pct1(Len(ghosts), total)
    IN  IF ghosts = <<>> THEN self
        ELSE IF total = 0 THEN Raise(self, "ZeroDivisionError")
        ELSE IF ~AllNamed(ghosts) THEN Raise(self, "KeyError")
        ELSE _add(self, Title("Ghost Scan(s) - Never Executed", <<Len(ghosts), ghost_pct>>, <<>>),
                  CREDENTIAL_COVERAGE, Critical,
                  Description(<<Len(ghosts), total, ghost_pct>>, <<>>, {}),
                  "Audit and delete ghost scans.",
                  "medium",
                  _truncate_evidence(Names(ghosts), 5))

UnauthenticatedFinding(self) ==
    LET active == SelectSeq(self.scans, IsActive)
        unauthenticated == SelectSeq(active, LacksCredentials)
        active_total == Len(active)
        pct == IF active_total # 0 THEN Pct1(Len(unauthenticated), active_total) ELSE 0
    IN  IF unauthenticated = <<>> THEN self
        ELSE IF ~AllNamed(unauthenticated) THEN Raise(self, "KeyError")
        ELSE _add(self, Title("Active Scan(s) Without Credentials", <<Len(unauthenticated)>>, <<>>),
                  CREDENTIAL_COVERAGE, UnauthSeverity(pct),
                  Description(<<Len(unauthenticated), active_total, pct,
                                Len(active) - Len(unauthenticated)>>, <<>>, {}),
                  "Configure credential sets for all internal network scans.",
                  "high",
                  _truncate_evidence(Names(unauthenticated), 5))

\* Mutant: the unauthenticated finding is emitted before the ghost finding.
_check_credential_coverageUnauthFirst(self) ==
    LET s1 == UnauthenticatedFinding(self)
    IN  IF s1.raised # "no" THEN s1 ELSE GhostFinding(s1)

_check_credential_coverage(self) ==
    LET s1 == GhostFinding(self)
    IN  IF s1.raised # "no" THEN s1 ELSE UnauthenticatedFinding(s1)

\* Credential type strings the model draws from, classified by the two
\* substring tests "windows" in t.lower() and "ssh" in t.lower().
WindowsTypes == {"Windows", "WINDOWS domain", "Windows+SSH"}
SshTypes == {"SSH", "OpenSSH key", "Windows+SSH"}

\* str(c.get("type", "Unknown"))
_ctype(c) == Get(c, "type", "Unknown")

\* Mutant: only the Windows family is looked for.
MissingWindowsOnly(creds) ==
    LET has_windows == \E i \in 1..Len(creds) : _ctype(creds[i]) \in WindowsTypes
    IN  IF has_windows THEN <<>> ELSE <<"Windows">>

Missing(creds) ==
    LET has_windows == \E i \in 1..Len(creds) : _ctype(creds[i]) \in WindowsTypes
        has_ssh == \E i \in 1..Len(creds) : _ctype(creds[i]) \in SshTypes
    IN  (IF has_windows THEN <<>> ELSE <<"Windows">>)
        \o (IF has_ssh THEN <<>> ELSE <<"SSH/Linux">>)

\* types = list({...}): a set, whose iteration order Python leaves open; the
\* model keeps the set.
_check_credentials_configured(self) ==
    LET creds == self.credentials
        types == {_ctype(creds[i]) : i \in 1..Len(creds)}
        missing == Missing(creds)
    IN  IF creds = <<>>
        THEN _add(self, Title("No Shared Credentials Configured", <<>>, <<>>),
                  CREDENTIAL_COVERAGE, High,
                  Description(<<>>, <<>>, {}),
                  "Configure at least one Windows (domain) and one SSH credential set.",
                  "medium",
                  Evidence("0 credential sets found via credentials API.", <<>>, 0))
        ELSE IF missing = <<>> THEN self
        ELSE _add(self, Title("Missing Credential Types", <<>>, missing),
                  CREDENTIAL_COVERAGE, Medium,
                  Description(<<Len(creds)>>, missing, types),
                  "Add the missing credential sets to cover all OS types.",
                  "medium",
                  Evidence("credential set(s)", <<>>, Len(creds)))

IsDefault(n) == IsTrue(n, "is_default")

\* Mutant: a network without an asset_count is not counted as empty.
IsEmptyNetworkCounted(n) ==
    "asset_count" \in DOMAIN n /\ n.asset_count = 0 /\ ~IsTrue(n, "is_default")

IsEmptyNetwork(n) == Get(n, "asset_count", 0) = 0 /\ ~IsTrue(n, "is_default")

_check_networks(self) ==
    LET nets == self.networks
        default_only == \A i \in 1..Len(nets) : IsDefault(nets[i])
        empty_networks == SelectSeq(nets, IsEmptyNetwork)
    IN  IF nets = <<>> THEN self
        ELSE IF default_only /\ Len(nets) = 1
        THEN _add(self, Title("Only Default Network Configured", <<>>, <<>>),
                  ASSET_COVERAGE, Medium,
                  Description(<<>>, <<>>, {}),
                  "Create dedicated networks per segment.",
                  "medium",
                  Evidence("1 network found: Default (is_default=True).", <<>>, 0))
        ELSE IF empty_networks = <<>> THEN self
        ELSE IF ~AllNamed(empty_networks) THEN Raise(self, "KeyError")
        ELSE _add(self, Title("Network(s) With No Assets", <<Len(empty_networks)>>, <<>>),
                  ASSET_COVERAGE, Low,
                  Description(<<Len(empty_networks)>>, <<>>, {}),
                  "Review and clean up empty networks or assign assets.",
                  "low",
                  _truncate_evidence(Names(empty_networks), 5))

\* Mutant: a value that cannot be read counts as seen today.
days_sinceLenient(ts, today) ==
    IF ~TsTruthy(ts) THEN 0
    ELSE IF ts.k = "iso" THEN today - ts.day
    ELSE 0

\* days_since (lines 217-223): 999 for a missing or unparseable value
days_since(ts, today) ==
    IF ~TsTruthy(ts) THEN 999
    ELSE IF ts.k = "iso" THEN today - ts.day
    ELSE 999

\* asset_name (lines 225-227)
asset_name(a) ==
    IF IsText(a, "name") THEN a.name
    ELSE IF IsText(a, "fqdn") THEN a.fqdn
    ELSE IF IsText(a, "hostname") THEN a.hostname
    ELSE IF IsText(a, "ipv4") THEN a.ipv4
    ELSE "unknown"

AssetNames(s) == [i \in 1..Len(s) |-> asset_name(s[i])]

CloudSources == {"CloudDiscoveryConnector", "AWS", "AZURE", "GCP"}

HasAuthDate(a) ==
    "last_authenticated_scan_date" \in DOMAIN a
    /\ TsTruthy(a.last_authenticated_scan_date)

\* Severity.CRITICAL if pct > 30 else Severity.HIGH, pct in tenths
ZombieSeverity(pct) == IF pct > 300 THEN Critical ELSE High

_check_asset_staleness(self) ==
    LET today == self.now
        total == Len(self.assets)
        age(a) == days_since(Get(a, "last_seen", NoTs), today)
        IsZombie(a) == age(a) > 90
        IsStale(a) == 30 < age(a) /\ age(a) <= 90
        IsCloudUnscanned(a) ==
            /\ Get(a, "source", "None") \in CloudSources
            /\ ~HasAuthDate(a)
            /\ ~IsTrue(a, "has_plugin_results")
        IsNoAuthScan(a) == ~HasAuthDate(a) /\ IsTrue(a, "has_plugin_results")
        zombies == SelectSeq(self.assets, IsZombie)
        stale == SelectSeq(self.assets, IsStale)
        cloud_unscanned == SelectSeq(self.assets, IsCloudUnscanned)
        no_auth_scan == SelectSeq(self.assets, IsNoAuthScan)
        zpct == Pct1(Len(zombies), total)
        spct == Pct1(Len(stale), total)
        npct == Pct1(Len(no_auth_scan), total)
        s1 == IF zombies = <<>> THEN self
              ELSE IF total = 0 THEN Raise(self, "ZeroDivisionError")
              ELSE _add(self, Title("Zombie Asset(s) - No Activity >90 Days",
                                    <<Len(zombies), zpct>>, <<>>),
                        ASSET_COVERAGE, ZombieSeverity(zpct),
                        Description(<<Len(zombies), zpct>>, <<>>, {}),
                        "Enable Asset Aging policy in Tenable.",
                        "medium",
                        _truncate_evidence(AssetNames(zombies), 5))
        s2 == IF s1.raised # "no" \/ stale = <<>> THEN s1
              ELSE IF total = 0 THEN Raise(s1, "ZeroDivisionError")
              ELSE _add(s1, Title("Stale Asset(s) - No Activity 30-90 Days",
                                  <<Len(stale), spct>>, <<>>),
                        ASSET_COVERAGE, Medium,
                        Description(<<Len(stale), spct>>, <<>>, {}),
                        "Verify scanner reachability for these assets.",
                        "low",
                        _truncate_evidence(AssetNames(stale), 5))
        s3 == IF s2.raised # "no" \/ cloud_unscanned = <<>> THEN s2
              ELSE _add(s2, Title("Cloud Asset(s) Never Scanned",
                                  <<Len(cloud_unscanned)>>, <<>>),
                        ASSET_COVERAGE, High,
                        Description(<<Len(cloud_unscanned)>>, <<>>, {}),
                        "Deploy cloud-native scanners or Tenable Agents.",
                        "medium",
                        _truncate_evidence(AssetNames(cloud_unscanned), 5))
    IN  IF s3.raised # "no" \/ ~(no_auth_scan # <<>> /\ Len(no_auth_scan) > 3)
        THEN s3
        ELSE IF total = 0 THEN Raise(s3, "ZeroDivisionError")
        ELSE _add(s3, Title("Asset(s) Never Authenticated",
                            <<Len(no_auth_scan), npct>>, <<>>),
                  ASSET_COVERAGE, Medium,
                  Description(<<Len(no_auth_scan), npct>>, <<>>, {}),
                  "Configure and enable credential scanning for these assets.",
                  "high",
                  _truncate_evidence(AssetNames(no_auth_scan), 5))

\* not a.get("tags")
IsUntagged(a) == "tags" \notin DOMAIN a \/ a.tags = <<>>

\* Severity.MEDIUM if pct < 50 else Severity.HIGH, pct in tenths
TagSeverity(pct) == IF pct < 500 THEN Medium ELSE High

_check_asset_tagging(self) ==
    LET untagged == SelectSeq(self.assets, IsUntagged)
        pct == Pct1(Len(untagged), Len(self.assets))
    IN  IF untagged = <<>> THEN self
        ELSE IF Len(self.assets) = 0 THEN Raise(self, "ZeroDivisionError")
        ELSE _add(self, Title("Assets Without Tags", <<Len(untagged), pct>>, <<>>),
                  TAG_MANAGEMENT, TagSeverity(pct),
                  Description(<<>>, <<>>, {}),
                  "Define tagging taxonomy and apply Tag Propagation rules.",
                  "high",
                  Evidence("% of assets have no classification tags.", <<>>, pct))

\* The scans the loop of _check_scan_frequency does not skip (lines 340-343)
IsConsidered(scan) == IsText(scan, "name") /\ ~IsFalse(scan, "enabled")

\* Mutant: Critical from 100 stale scans on.
FrequencySeverityFrom100(n) == IF n >= 100 THEN Critical ELSE High

\* Severity.CRITICAL if len(stale) > 100 else Severity.HIGH
FrequencySeverity(n) == IF n > 100 THEN Critical ELSE High

\* A last_run that is a non-zero number has no .replace: AttributeError, which
\* the except clause (ValueError, TypeError) does not catch.
_check_scan_frequency(self) ==
    LET today == self.now
        last_run(scan) == Get(scan, "last_run", NoTs)
        Escapes(scan) == IsConsidered(scan) /\ last_run(scan).k = "num"
        IsStaleScan(scan) ==
            /\ IsConsidered(scan)
            /\ \/ ~TsTruthy(last_run(scan))
               \/ last_run(scan).k = "iso" /\ today - last_run(scan).day > 30
               \/ last_run(scan).k \in {"bad", "naive"}
        stale == Names(SelectSeq(self.scans, IsStaleScan))
    IN  IF \E i \in 1..Len(self.scans) : Escapes(self.scans[i])
        THEN Raise(self, "AttributeError")
        ELSE IF stale = <<>> THEN self
        ELSE _add(self, Title("Scan(s) Not Run in 30+ Days", <<Len(stale)>>, <<>>),
                  SCAN_POLICY, FrequencySeverity(Len(stale)),
                  Description(<<Len(stale)>>, <<>>, {}),
                  "Review and clean up abandoned scans.",
                  "medium",
                  _truncate_evidence(stale, 5))

----------------------------------------------------------------------------
(* MaturityEngine (core/maturity_engine.py) *)

\* Mutant: the Low weight with its sign lost.
WeightLowPositive(sev) ==
    IF sev = Critical THEN -1000
    ELSE IF sev = High THEN -500
    ELSE IF sev = Medium THEN -250
    ELSE IF sev = Low THEN 100
    ELSE 0

\* WEIGHTS.get(f.severity, 0), in thousandths
Weight(sev) ==
    IF sev = Critical THEN -1000
    ELSE IF sev = High THEN -500
    ELSE IF sev = Medium THEN -250
    ELSE IF sev = Low THEN -100
    ELSE 0

\* BASE = 3.5, in thousandths
BASE == 3500

RECURSIVE SumWeights(_)
SumWeights(fs) ==
    IF fs = <<>> THEN 0
    ELSE SumWeights(SubSeq(fs, 1, Len(fs) - 1)) + Weight(fs[Len(fs)].severity)

\* Mutant: a full point from 90% on.
BonusFull(m) ==
    LET auth_pct == Get(m, "authenticated_scans_pct", 0)
    IN  IF auth_pct >= 900 THEN 1000
        ELSE IF auth_pct >= 700 THEN 250
        ELSE 0

\* Mutant: the two steps compared with > instead of >=.
BonusStrict(m) ==
    LET auth_pct == Get(m, "authenticated_scans_pct", 0)
    IN  IF auth_pct > 900 THEN 500
        ELSE IF auth_pct > 700 THEN 250
        ELSE 0

\* The coverage bonus (lines 21-25), auth_pct in tenths, bonus in thousandths
Bonus(m) ==
    LET auth_pct == Get(m, "authenticated_scans_pct", 0)
    IN  IF auth_pct >= 900 THEN 500
        ELSE IF auth_pct >= 700 THEN 250
        ELSE 0

\* Mutant: the thresholds compared with > instead of >=.
_levelStrict(s) ==
    IF s > 450 THEN "Optimized"
    ELSE IF s > 350 THEN "Managed"
    ELSE IF s > 250 THEN "Defined"
    ELSE IF s > 150 THEN "Developing"
    ELSE "Initial"

_level(s) ==
    IF s >= 450 THEN "Optimized"
    ELSE IF s >= 350 THEN "Managed"
    ELSE IF s >= 250 THEN "Defined"
    ELSE IF s >= 150 THEN "Developing"
    ELSE "Initial"

\* round(max(1.0, min(5.0, score)), 2): thousandths in, hundredths out
ClampRound(raw) == RoundHalfEven(Max(1000, Min(5000, raw)), 10)

calculate(fs, m) ==
    LET s == ClampRound(BASE + SumWeights(fs) + Bonus(m))
    IN  <<s, _level(s)>>

----------------------------------------------------------------------------
(* RecommendationEngine (core/recommendation_engine.py) *)

\* PRIORITY.get(f.severity, 5)
PRIORITY(sev) ==
    IF sev = Critical THEN 1
    ELSE IF sev = High THEN 2
    ELSE IF sev = Medium THEN 3
    ELSE IF sev = Low THEN 4
    ELSE 5

\* Mutant: a category without an entry falls to the last phase.
CATEGORY_TYPEDefaultRoadmap(category) ==
    IF category \in {SCANNER_HEALTH, SCAN_POLICY} THEN "quick-win"
    ELSE IF category \in {CREDENTIAL_COVERAGE, ASSET_COVERAGE} THEN "strategic"
    ELSE "roadmap"

\* CATEGORY_TYPE.get(category, "strategic")
CATEGORY_TYPE(category) ==
    IF category \in {SCANNER_HEALTH, SCAN_POLICY} THEN "quick-win"
    ELSE IF category \in {CREDENTIAL_COVERAGE, ASSET_COVERAGE} THEN "strategic"
    ELSE IF category = TAG_MANAGEMENT THEN "roadmap"
    ELSE "strategic"

\* Mutant: every group holds every finding.
GroupOfAll(fs, category) == fs

\* Mutant: the group is left in input order.
SortBySeverityNone(items) == items

\* Mutant: the recommendations are left in group order.
SortByPriorityNone(rs) == rs

\* list.sort(key=...) with keys in 1..5: stable, so equal keys keep their order
SortBySeverity(items) ==
    LET B(r) == SelectSeq(items, LAMBDA f : PRIORITY(f.severity) = r)
    IN  B(1) \o B(2) \o B(3) \o B(4) \o B(5)

SortByPriority(rs) ==
    LET B(r) == SelectSeq(rs, LAMBDA x : x.priority = r)
    IN  B(1) \o B(2) \o B(3) \o B(4) \o B(5)

\* The keys of by_category, in insertion order (a dict keeps it)
CategoriesOf(fs) ==
    LET idx == SelectSeq([i \in 1..Len(fs) |-> i],
                         LAMBDA i : \A j \in 1..(i - 1) : fs[j].category # fs[i].category)
    IN  [k \in 1..Len(idx) |-> fs[idx[k]].category]

\* by_category[category]: a new list, in input order
GroupOf(fs, category) == SelectSeq(fs, LAMBDA f : f.category = category)

GroupRecommendation(fs, category) ==
    LET items == SortBySeverity(GroupOf(fs, category))
        top == items[1]
        shown == Take(items, 3)
    IN  [priority |-> PRIORITY(top.severity),
         title |-> Title("Remediate", <<Len(items)>>, <<category>>),
         description |-> [i \in 1..Len(shown) |->
                            [severity |-> shown[i].severity,
                             recommendation |-> shown[i].recommendation]],
         findings_refs |-> [i \in 1..Len(items) |-> items[i].id],
         type |-> CATEGORY_TYPE(category)]

\* Mutant: the per-group priorities are kept.
RenumberSkipped(rs) == rs

\* for i, r in enumerate(recs, 1): r.priority = i
Renumber(rs) == [i \in 1..Len(rs) |-> [rs[i] EXCEPT !.priority = i]]

generate(fs) ==
    LET cats == CategoriesOf(fs)
        built == [k \in 1..Len(cats) |-> GroupRecommendation(fs, cats[k])]
    IN  Renumber(SortByPriority(built))

----------------------------------------------------------------------------
(* AssessmentService.run, lines 27-36: the metrics handed to the engine *)

IsHealthy(s) == Get(s, "status", "None") = "on" /\ IsTrue(s, "linked")

HasCredentials(s) == IsTrue(s, "credential_enabled")

\* Mutant: an empty collection counts as fully covered.
ServiceMetricsFullWhenEmpty(scs, sns) ==
    LET healthy == Len(SelectSeq(scs, IsHealthy))
        auth == Len(SelectSeq(sns, HasCredentials))
    IN  [authenticated_scans_pct |-> IF sns # <<>> THEN Pct1(auth, Len(sns)) ELSE 1000,
         scanner_health_pct |-> IF scs # <<>> THEN Pct1(healthy, Len(scs)) ELSE 1000]

ServiceMetrics(scs, sns) ==
    LET healthy == Len(SelectSeq(scs, IsHealthy))
        auth == Len(SelectSeq(sns, HasCredentials))
    IN  [authenticated_scans_pct |-> IF sns # <<>> THEN Pct1(auth, Len(sns)) ELSE 0,
         scanner_health_pct |-> IF scs # <<>> THEN Pct1(healthy, Len(scs)) ELSE 0]

----------------------------------------------------------------------------
(* The inputs the model draws: records shaped as integrations/tenable_client.py
   normalises them (lines 42-49, 65-72, 137-149, 190-195, 208-215) and as its
   mock data gives them (lines 222-277), with the optional asset fields the
   staleness check reads. Day 400 is today. *)

Today == [k |-> "iso", day |-> 400]

DaysAgo(n) == [k |-> "iso", day |-> Today.day - n]

ScannerOk == [name |-> "HQ-Scanner-01", status |-> "on", linked |-> TRUE]
ScannerOff == [name |-> "DMZ-Scanner-01", status |-> "off", linked |-> TRUE]
ScannerUnlinked == [name |-> "Branch-Scanner-MTY", status |-> "on", linked |-> FALSE]
ScannerOffUnlinked == [name |-> "", status |-> "off", linked |-> FALSE]
ScannerRecs == {ScannerOk, ScannerOff, ScannerUnlinked, ScannerOffUnlinked}

ScanAuth == [name |-> "Weekly Full Scan - HQ", credential_enabled |-> TRUE,
             is_ghost |-> FALSE, last_run |-> DaysAgo(10), enabled |-> TRUE]
ScanUnauth == [name |-> "DMZ Discovery Scan", credential_enabled |-> FALSE,
               is_ghost |-> FALSE, last_run |-> DaysAgo(10), enabled |-> TRUE]
ScanGhost == [name |-> "Quarterly Audit", credential_enabled |-> FALSE,
              is_ghost |-> TRUE, last_run |-> NoTs, enabled |-> TRUE]
ScanOld == [name |-> "AD Servers - Credentialed", credential_enabled |-> TRUE,
            is_ghost |-> FALSE, last_run |-> DaysAgo(45), enabled |-> TRUE]
ScanDisabled == [name |-> "Retired Scan", credential_enabled |-> FALSE,
                 is_ghost |-> FALSE, last_run |-> DaysAgo(45), enabled |-> FALSE]
ScanMock == [name |-> "Cloud Assets Scan", credential_enabled |-> FALSE,
             last_run |-> DaysAgo(45)]
ScanRecs == {ScanAuth, ScanUnauth, ScanGhost, ScanOld, ScanDisabled, ScanMock}

AssetFresh == [fqdn |-> "host-1.corp.local", ipv4 |-> "10.0.0.1",
               last_seen |-> DaysAgo(5), tags |-> <<"env">>,
               last_authenticated_scan_date |-> DaysAgo(5),
               has_plugin_results |-> TRUE]
AssetZombie == [fqdn |-> "host-2.corp.local", ipv4 |-> "10.0.0.2",
                last_seen |-> DaysAgo(150), tags |-> <<>>]
AssetStale == [fqdn |-> "host-3.corp.local", ipv4 |-> "10.0.0.3",
               last_seen |-> DaysAgo(60), tags |-> <<"env">>,
               last_authenticated_scan_date |-> DaysAgo(60),
               has_plugin_results |-> TRUE]
AssetCloud == [fqdn |-> "", ipv4 |-> "10.0.0.4", source |-> "AWS",
               last_seen |-> DaysAgo(5), tags |-> <<"env">>,
               has_plugin_results |-> FALSE]
AssetNoAuth == [fqdn |-> "host-5.corp.local", ipv4 |-> "10.0.0.5",
                last_seen |-> DaysAgo(5), tags |-> <<"env">>,
                has_plugin_results |-> TRUE]
AssetNoDate == [fqdn |-> "host-6.corp.local", ipv4 |-> "10.0.0.6",
                last_seen |-> [k |-> "empty"], tags |-> <<"env">>,
                last_authenticated_scan_date |-> DaysAgo(5),
                has_plugin_results |-> TRUE]
AssetRecs == {AssetFresh, AssetZombie, AssetStale, AssetCloud, AssetNoAuth,
              AssetNoDate}

CredWindows == [name |-> "Windows Domain Admin", type |-> "Windows"]
CredSsh == [name |-> "Linux SSH Key", type |-> "SSH"]
CredDatabase == [name |-> "DB Read-Only", type |-> "Database"]
CredUntyped == [name |-> "Imported"]
CredUpper == [name |-> "AD Service Account", type |-> "WINDOWS domain"]
CredBoth == [name |-> "Mixed Fleet", type |-> "Windows+SSH"]
CredRecs == {CredWindows, CredSsh, CredDatabase, CredUntyped, CredUpper, CredBoth}

NetDefault == [name |-> "Default", asset_count |-> 180, is_default |-> TRUE]
NetDmz == [name |-> "DMZ", asset_count |-> 30, is_default |-> FALSE]
NetEmpty == [name |-> "Lab", asset_count |-> 0, is_default |-> FALSE]
NetNoCount == [name |-> "Legacy", is_default |-> FALSE]
NetRecs == {NetDefault, NetDmz, NetEmpty, NetNoCount}

\* Lists of one or two records drawn from S
UpToTwo(S) == {<<a>> : a \in S} \cup {<<a, b>> : a \in S, b \in S}

\* Records a caller can hand to GapAnalyzer that the client would not build:
\* without a name, or with a timestamp that is not a timezone-aware ISO
\* string ("bad" unparseable, "naive" without offset, "num" a non-zero number)
MalformedScannerLists ==
    UpToTwo({[status |-> "off", linked |-> TRUE],
             [status |-> "on", linked |-> TRUE],
             ScannerOff})

\* Named scans whose last_run is unparseable, naive, a number, empty, absent
OddRunScans ==
    LET WithRun(name, ts) == [name |-> name, credential_enabled |-> TRUE,
                              is_ghost |-> FALSE, last_run |-> ts]
    IN  {WithRun("Scan bad date", [k |-> "bad"]),
         WithRun("Scan naive date", [k |-> "naive", day |-> Today.day - 10]),
         WithRun("Scan epoch date", [k |-> "num"]),
         WithRun("Scan empty date", [k |-> "empty"]),
         [name |-> "Scan no date", credential_enabled |-> TRUE, is_ghost |-> FALSE]}

MalformedScanLists ==
    UpToTwo({[credential_enabled |-> FALSE, is_ghost |-> TRUE, last_run |-> NoTs],
             [credential_enabled |-> FALSE, is_ghost |-> FALSE,
              last_run |-> DaysAgo(10)],
             ScanAuth})
    \cup UpToTwo(OddRunScans \cup {ScanAuth})

\* Assets whose last_seen is unparseable, naive, a number, absent
OddSeenAssets ==
    LET Seen(ipv4, ts) == [fqdn |-> "", ipv4 |-> ipv4, last_seen |-> ts,
                           tags |-> <<"env">>,
                           last_authenticated_scan_date |-> DaysAgo(5),
                           has_plugin_results |-> TRUE]
    IN  {Seen("10.0.1.1", [k |-> "bad"]),
         Seen("10.0.1.2", [k |-> "naive", day |-> Today.day - 5]),
         Seen("10.0.1.3", [k |-> "num"]),
         [fqdn |-> "", ipv4 |-> "10.0.1.4", tags |-> <<"env">>,
          last_authenticated_scan_date |-> DaysAgo(5),
          has_plugin_results |-> TRUE]}

MalformedAssetLists == UpToTwo(OddSeenAssets \cup {AssetFresh})

MalformedNetworkLists ==
    UpToTwo({[asset_count |-> 0, is_default |-> FALSE], NetDefault, NetDmz})

\* Assets last seen on the two tier boundaries and one day past each
BoundaryAssets == {[AssetFresh EXCEPT !.last_seen = DaysAgo(n)] : n \in {30, 31, 90, 91}}

\* Four assets unseen for 150 days with plugin results and no authenticated
\* scan, then an untagged cloud asset unseen for 60 days: all four tiers
TierOverlapAssets ==
    Repl([AssetNoAuth EXCEPT !.last_seen = DaysAgo(150)], 4)
    \o <<[AssetCloud EXCEPT !.last_seen = DaysAgo(60), !.tags = <<>>]>>

\* Scans for the frequency check: one with an empty name, and two last run
\* exactly 30 and 31 days ago
FrequencyScans ==
    {[ScanOld EXCEPT !.name = ""],
     [ScanOld EXCEPT !.last_run = DaysAgo(30)],
     [ScanOld EXCEPT !.last_run = DaysAgo(31)]}

\* Four scanners of which exactly one is offline and exactly one is unlinked
FourScanners ==
    {s \in [1..4 -> ScannerRecs] :
        /\ Len(SelectSeq(s, IsOffline)) = 1
        /\ Len(SelectSeq(s, IsUnlinked)) = 1}

\* u active scans without credentials followed by c active scans with them
BulkScans(u, c) == Repl(ScanUnauth, u) \o Repl(ScanAuth, c)

\* z untagged assets unseen for 150 days followed by f tagged assets seen 5
\* days ago
BulkAssets(z, f) == Repl(AssetZombie, z) \o Repl(AssetFresh, f)

ScannerLists ==
    SeqsUpTo(ScannerRecs, MaxScanners) \cup FourScanners \cup MalformedScannerLists

ScanLists ==
    SeqsUpTo(ScanRecs, MaxScans)
    \cup {BulkScans(6, 4), BulkScans(5, 5), BulkScans(501, 500),
          Repl(ScanOld, 100), Repl(ScanOld, 101)}
    \cup UpToTwo(FrequencyScans)
    \cup MalformedScanLists

AssetLists ==
    SeqsUpTo(AssetRecs, MaxAssets)
    \cup {BulkAssets(35, 65), BulkAssets(30, 70), BulkAssets(61, 142),
          BulkAssets(500, 501), Repl(AssetNoAuth, 4), TierOverlapAssets}
    \cup UpToTwo(BoundaryAssets)
    \cup MalformedAssetLists

CredentialLists == SeqsUpTo(CredRecs, MaxCredentials)

NetworkLists == SeqsUpTo(NetRecs, MaxNetworks) \cup MalformedNetworkLists

\* While one collection ranges over all its lists, the other collections are
\* all empty, or each holds one list on which its checks fire; the credentials
\* list is empty or holds both credential types.
NoOthers == [scanners |-> <<>>, scans |-> <<>>, assets |-> <<>>, networks |-> <<>>]
BusyOthers == [scanners |-> <<ScannerOffUnlinked>>, scans |-> <<ScanGhost, ScanMock>>,
               assets |-> <<AssetZombie>>, networks |-> <<NetDefault>>]
Others == {NoOthers, BusyOthers}
FewCredentials == {<<>>, <<CredWindows, CredSsh>>}

----------------------------------------------------------------------------
(* The analyzer as a state machine *)

\* GapAnalyzer.__init__ (lines 31-41): findings = [], _counter = 0
AnalyzerInit ==
    /\ findings = <<>>
    /\ counter = 0
    /\ calls = 0
    /\ returned = <<>>
    /\ now = Today.day

EngineIdle ==
    /\ metrics = [authenticated_scans_pct |-> 0, scanner_health_pct |-> 0]
    /\ score = 0
    /\ level = "None"
    /\ recs = <<>>

\* No data source, no summary: the analyzer and the engines used on their own
NoClient == [scanners |-> <<>>, assets |-> <<>>, scans |-> <<>>,
             credentials |-> <<>>, networks |-> <<>>]

NoNarrative == [kind |-> "None", findings |-> 0, critical |-> 0,
                level |-> "None", score |-> 0]

NoSummary ==
    [built |-> FALSE, maturity_level |-> "None", maturity_score |-> 0,
     total_assets |-> 0,
     authenticated_scans_pct |-> [num |-> 0, den |-> 1],
     scanner_health_pct |-> [num |-> 0, den |-> 1],
     findings |-> <<>>, recommendations |-> <<>>,
     executive_narrative |-> NoNarrative]

ServiceIdle ==
    /\ client = NoClient
    /\ ai = [enabled |-> FALSE, outcome |-> "none"]
    /\ summary = NoSummary
    /\ steps = <<>>
    /\ history = <<>>

Init ==
    /\ ServiceIdle
    /\ name_list = <<>> /\ evidence_text = Evidence("none", <<>>, 0)
    /\ \E o \in Others :
          \/ /\ scanners \in ScannerLists
             /\ scans = o.scans
             /\ assets = o.assets
             /\ credentials \in FewCredentials
             /\ networks = o.networks
          \/ /\ scanners = o.scanners
             /\ scans \in ScanLists
             /\ assets = o.assets
             /\ credentials \in FewCredentials
             /\ networks = o.networks
          \/ /\ scanners = o.scanners
             /\ scans = o.scans
             /\ assets \in AssetLists
             /\ credentials \in FewCredentials
             /\ networks = o.networks
          \/ /\ scanners = o.scanners
             /\ scans = o.scans
             /\ assets = o.assets
             /\ credentials \in CredentialLists
             /\ networks = o.networks
          \/ /\ scanners = o.scanners
             /\ scans = o.scans
             /\ assets = o.assets
             /\ credentials \in FewCredentials
             /\ networks \in NetworkLists
    /\ AnalyzerInit
    /\ EngineIdle
    /\ pc = "scanner_health"

Self ==
    [scanners |-> scanners, assets |-> assets, scans |-> scans,
     credentials |-> credentials, networks |-> networks, now |-> now,
     findings |-> findings, counter |-> counter, raised |-> "no"]

\* One check of run_all_checks: its findings are appended; an exception
\* leaves run_all_checks with what was appended before it, and pc names it.
Check(from, to, result) ==
    /\ pc = from
    /\ findings' = result.findings
    /\ counter' = result.counter
    /\ pc' = IF result.raised # "no" THEN result.raised ELSE to
    /\ UNCHANGED <<truncation, inputs, now, calls, returned, metrics, score, level, recs,
                   service, steps>>

CheckScannerHealth ==
    Check("scanner_health", "scanner_linking", _check_scanner_health(Self))

CheckScannerLinking ==
    Check("scanner_linking", "credential_coverage", _check_scanner_linking(Self))

CheckCredentialCoverage ==
    Check("credential_coverage", "credentials_configured",
          _check_credential_coverage(Self))

CheckCredentialsConfigured ==
    Check("credentials_configured", "networks", _check_credentials_configured(Self))

CheckNetworks ==
    Check("networks", "asset_staleness", _check_networks(Self))

CheckAssetStaleness ==
    Check("asset_staleness", "asset_tagging", _check_asset_staleness(Self))

CheckAssetTagging ==
    Check("asset_tagging", "scan_frequency", _check_asset_tagging(Self))

CheckScanFrequency ==
    Check("scan_frequency", "return", _check_scan_frequency(Self))

\* return self.findings (line 54)
Return ==
    /\ pc = "return"
    /\ pc' = "returned"
    /\ calls' = calls + 1
    /\ returned' = Append(returned, findings)
    /\ steps' = Append(steps, "analyze")
    /\ UNCHANGED <<truncation, inputs, now, findings, counter, metrics, score, level, recs,
                   service>>

\* run_all_checks called again on the same analyzer: nothing is reset
Rerun ==
    /\ pc = "returned"
    /\ calls < MaxCalls
    /\ pc' = "scanner_health"
    /\ UNCHANGED <<truncation, inputs, now, findings, counter, calls, returned, metrics,
                   score, level, recs, service, steps>>

\* MaturityEngine(findings, metrics).calculate()
Calculate(m) ==
    /\ metrics' = m
    /\ score' = calculate(findings, m)[1]
    /\ level' = calculate(findings, m)[2]
    /\ pc' = "scored"
    /\ steps' = Append(steps, "maturity")
    /\ UNCHANGED <<truncation, inputs, now, findings, counter, calls, returned, recs, service>>

\* Mutant: generate sorts the list it was given instead of the groups.
GenerateStepInPlace ==
    /\ recs' = generate(findings)
    /\ findings' = SortBySeverity(findings)
    /\ pc' = "recommended"
    /\ steps' = Append(steps, "recommendations")
    /\ UNCHANGED <<truncation, inputs, now, counter, calls, returned, metrics, score, level,
                   service>>

\* RecommendationEngine(findings).generate(): the groups are new lists, so
\* sorting them leaves the findings list as it was
GenerateStep ==
    /\ recs' = generate(findings)
    /\ pc' = "recommended"
    /\ steps' = Append(steps, "recommendations")
    /\ UNCHANGED <<truncation, inputs, now, findings, counter, calls, returned, metrics,
                   score, level, service>>

\* AssessmentService.run lines 27-38
ServiceCalculate ==
    /\ pc = "returned"
    /\ Calculate(ServiceMetrics(scanners, scans))

\* AssessmentService.run line 39
ServiceGenerate ==
    /\ pc = "scored"
    /\ GenerateStep

Next ==
    \/ CheckScannerHealth
    \/ CheckScannerLinking
    \/ CheckCredentialCoverage
    \/ CheckCredentialsConfigured
    \/ CheckNetworks
    \/ CheckAssetStaleness
    \/ CheckAssetTagging
    \/ CheckScanFrequency
    \/ Return
    \/ Rerun
    \/ ServiceCalculate
    \/ ServiceGenerate

Spec == Init /\ [][Next]_vars

----------------------------------------------------------------------------
(* AssessmentService.run (services/assessment_service.py lines 16-56) with
   AINarrativeEngine (services/ai_narrative.py) *)

\* n / total * 100 unrounded, 0 for an empty collection (lines 28, 31)
RawPct(n, total) ==
    IF total = 0 THEN [num |-> 0, den |-> 1] ELSE [num |-> 100 * n, den |-> total]

\* AssessmentSummary.critical_findings
critical_findings(sm) == SelectSeq(sm.findings, LAMBDA f : f.severity = Critical)

\* AINarrativeEngine._fallback: fixed text around the summary's customer and
\* date (which the summary fixes) and the four values kept here
_fallback(sm) ==
    [kind |-> "fallback",
     findings |-> Len(sm.findings),
     critical |-> Len(critical_findings(sm)),
     level |-> sm.maturity_level,
     score |-> sm.maturity_score]

\* The text the provider returned, whatever it says
ProviderText == [kind |-> "provider", findings |-> 0, critical |-> 0,
                 level |-> "None", score |-> 0]

\* Mutant: a provider failure leaves the narrative unset.
generate_narrativeNoFallback(enabled, outcome, sm) ==
    IF ~enabled THEN _fallback(sm)
    ELSE IF outcome = "text" THEN ProviderText
    ELSE NoNarrative

\* AINarrativeEngine.generate: the fallback when disabled, the provider's text
\* when the call succeeds, the fallback on any Exception inside the try
generate_narrative(enabled, outcome, sm) ==
    IF ~enabled THEN _fallback(sm)
    ELSE IF outcome = "text" THEN ProviderText
    ELSE _fallback(sm)

\* The data source of a service run: one of scanners, scans, assets ranges
\* over its lists as the client builds them (every scanner and scan named, a
\* timestamp None or a string); credentials and networks are what the tenant
\* holds
Clients ==
    LET Text(l, field) == \A i \in 1..Len(l) : Get(l[i], field, NoTs).k # "num"
    IN  {[scanners |-> l, scans |-> o.scans, assets |-> o.assets,
          credentials |-> c, networks |-> o.networks] :
            l \in {x \in ScannerLists : AllNamed(x)},
            o \in Others, c \in FewCredentials}
        \cup {[scanners |-> o.scanners, scans |-> l, assets |-> o.assets,
               credentials |-> c, networks |-> o.networks] :
            l \in {x \in ScanLists : AllNamed(x) /\ Text(x, "last_run")},
            o \in Others, c \in FewCredentials}
        \cup {[scanners |-> o.scanners, scans |-> o.scans, assets |-> l,
               credentials |-> c, networks |-> o.networks] :
            l \in {x \in AssetLists : Text(x, "last_seen")},
            o \in Others, c \in FewCredentials}

\* AssessmentService.__init__, before run
ServiceInit ==
    /\ client \in Clients
    /\ ai \in {[enabled |-> e, outcome |-> "none"] : e \in BOOLEAN}
    /\ summary = NoSummary
    /\ steps = <<>>
    /\ history = <<>>
    /\ name_list = <<>> /\ evidence_text = Evidence("none", <<>>, 0)
    /\ scanners = <<>> /\ assets = <<>> /\ scans = <<>>
    /\ credentials = <<>> /\ networks = <<>>
    /\ AnalyzerInit
    /\ EngineIdle
    /\ pc = "collect"

\* Lines 19-23: the five get_* calls all return
Collect ==
    /\ pc = "collect"
    /\ scanners' = client.scanners
    /\ assets' = client.assets
    /\ scans' = client.scans
    /\ pc' = "collected"
    /\ steps' = Append(steps, "collect")
    /\ UNCHANGED <<truncation, credentials, networks, now, findings, counter, calls, returned,
                   metrics, score, level, recs, service>>

\* Lines 19-23: one of the get_* calls raises; run has no handler
CollectFails ==
    /\ pc = "collect"
    /\ pc' = "CollectionError"
    /\ UNCHANGED <<truncation, inputs, now, findings, counter, calls, returned, metrics,
                   score, level, recs, service, steps>>

\* Mutant: the service keeps one analyzer and hands it to every run.
BuildAnalyzerShared ==
    /\ pc = "collected"
    /\ credentials' = <<>>
    /\ networks' = <<>>
    /\ findings' = IF history = <<>> THEN <<>>
                   ELSE history[Len(history)].summary.findings
    /\ counter' = IF history = <<>> THEN 0
                  ELSE Len(history[Len(history)].summary.findings)
    /\ pc' = "scanner_health"
    /\ UNCHANGED <<truncation, scanners, assets, scans, now, calls, returned, metrics, score,
                   level, recs, service, steps>>

\* Line 25: GapAnalyzer(scanners, assets, scans, policies, tags); credentials
\* and networks are not passed, so __init__ sets both to []; findings and
\* _counter belong to the new object
BuildAnalyzer ==
    /\ pc = "collected"
    /\ credentials' = <<>>
    /\ networks' = <<>>
    /\ findings' = <<>>
    /\ counter' = 0
    /\ pc' = "scanner_health"
    /\ UNCHANGED <<truncation, scanners, assets, scans, now, calls, returned, metrics, score,
                   level, recs, service, steps>>

\* Lines 41-52: AssessmentSummary(...)
Summarize ==
    /\ pc = "recommended"
    /\ summary' =
          [built |-> TRUE,
           maturity_level |-> level,
           maturity_score |-> score,
           total_assets |-> Len(assets),
           authenticated_scans_pct |->
               RawPct(Len(SelectSeq(scans, HasCredentials)), Len(scans)),
           scanner_health_pct |->
               RawPct(Len(SelectSeq(scanners, IsHealthy)), Len(scanners)),
           findings |-> findings,
           recommendations |-> recs,
           executive_narrative |-> NoNarrative]
    /\ pc' = "summarized"
    /\ steps' = Append(steps, "summary")
    /\ UNCHANGED <<truncation, inputs, now, findings, counter, calls, returned, metrics,
                   score, level, recs, client, ai, history>>

\* Lines 54-56: summary.executive_narrative = self.ai.generate(summary)
Narrate ==
    /\ pc = "summarized"
    /\ \E outcome \in (IF ai.enabled THEN {"text", "error"} ELSE {"skipped"}) :
          LET sm == [summary EXCEPT !.executive_narrative =
                        generate_narrative(ai.enabled, outcome, summary)]
          IN  /\ ai' = [ai EXCEPT !.outcome = outcome]
              /\ summary' = sm
              /\ history' = Append(history, [data |-> client, summary |-> sm])
    /\ pc' = "done"
    /\ steps' = Append(steps, "narrative")
    /\ UNCHANGED <<truncation, inputs, now, findings, counter, calls, returned, metrics,
                   score, level, recs, client>>

\* AssessmentService.run called again on the same service: a new call has
\* none of the earlier call's locals; the tenant's data is as before or the
\* tenant has been emptied
RunAgain ==
    /\ pc = "done"
    /\ Len(history) < MaxRuns
    /\ client' \in {client, NoClient}
    /\ ai' = [ai EXCEPT !.outcome = "none"]
    /\ summary' = NoSummary
    /\ steps' = <<>>
    /\ scanners' = <<>> /\ assets' = <<>> /\ scans' = <<>>
    /\ credentials' = <<>> /\ networks' = <<>>
    /\ findings' = <<>> /\ counter' = 0
    /\ calls' = 0 /\ returned' = <<>>
    /\ metrics' = [authenticated_scans_pct |-> 0, scanner_health_pct |-> 0]
    /\ score' = 0 /\ level' = "None" /\ recs' = <<>>
    /\ pc' = "collect"
    /\ UNCHANGED <<truncation, now, history>>

ServiceNext ==
    \/ Collect
    \/ CollectFails
    \/ BuildAnalyzer
    \/ CheckScannerHealth
    \/ CheckScannerLinking
    \/ CheckCredentialCoverage
    \/ CheckCredentialsConfigured
    \/ CheckNetworks
    \/ CheckAssetStaleness
    \/ CheckAssetTagging
    \/ CheckScanFrequency
    \/ Return
    \/ ServiceCalculate
    \/ ServiceGenerate
    \/ Summarize
    \/ Narrate
    \/ RunAgain

ServiceSpec == ServiceInit /\ [][ServiceNext]_vars

----------------------------------------------------------------------------
(* The two engines on any findings list: both are public classes that take
   the list (and the metrics dict) from their caller. *)

RecTexts == <<"Fix 1", "Fix 2", "Fix 3", "Fix 4", "Fix 5", "Fix 6", "Fix 7", "Fix 8">>

\* The i-th finding of a list, of the given category and severity
AFinding(i, category, severity) ==
    [id |-> FormatId(i),
     title |-> Title("Finding", <<i>>, <<>>),
     category |-> category,
     severity |-> severity,
     description |-> Description(<<>>, <<>>, {}),
     evidence |-> Evidence("none", <<>>, 0),
     recommendation |-> RecTexts[i],
     effort |-> "medium"]

FindingsOf(shape) == [i \in 1..Len(shape) |-> AFinding(i, shape[i][1], shape[i][2])]

FindingLists ==
    {FindingsOf(sh) :
        sh \in SeqsUpTo({SCANNER_HEALTH, TAG_MANAGEMENT, PROGRAM_MATURITY}
                            \X {Critical, Medium, Info}, MaxFindings)
               \cup SeqsUpTo({CREDENTIAL_COVERAGE} \X Severity, MaxGroup)
               \cup SeqsUpTo(FindingCategory \X Severity, 2)}

\* Metrics dicts: without the key, and with percentages around the two steps
MetricInputs ==
    {[scanner_health_pct |-> 0]}
    \cup {[authenticated_scans_pct |-> p, scanner_health_pct |-> 0] :
            p \in {0, 699, 700, 899, 900, 950, 1000}}

\* Scores handed to _level directly, in hundredths
ScoreInputs == 0 .. 600

EngineInit ==
    /\ ServiceIdle
    /\ name_list = <<>> /\ evidence_text = Evidence("none", <<>>, 0)
    /\ scanners = <<>>
    /\ assets = <<>>
    /\ scans = <<>>
    /\ credentials = <<>>
    /\ networks = <<>>
    /\ now = Today.day
    /\ calls = 0
    /\ returned = <<>>
    /\ metrics = [authenticated_scans_pct |-> 0, scanner_health_pct |-> 0]
    /\ level = "None"
    /\ recs = <<>>
    /\ \/ /\ pc = "given"
          /\ findings \in FindingLists
          /\ counter = Len(findings)
          /\ score = 0
       \/ /\ pc = "level_input"
          /\ findings = <<>>
          /\ counter = 0
          /\ score \in ScoreInputs

EngineCalculate ==
    /\ pc = "given"
    /\ \E m \in MetricInputs : Calculate(m)

EngineGenerate ==
    /\ pc = "given"
    /\ GenerateStep

\* MaturityEngine._level(score), a static method
LevelCall ==
    /\ pc = "level_input"
    /\ level' = _level(score)
    /\ pc' = "leveled"
    /\ UNCHANGED <<truncation, inputs, now, findings, counter, calls, returned, metrics,
                   score, recs, service, steps>>

EngineNext ==
    \/ EngineCalculate
    \/ EngineGenerate
    \/ LevelCall

EngineSpec == EngineInit /\ [][EngineNext]_vars

----------------------------------------------------------------------------
(* _truncate_evidence on any list of names (gap_analyzer.py lines 18-27), with
   max_items at its default, which every call site uses *)

\* Blank names, UUID-shaped names and two readable names
NameInputs == BlankNames \cup UuidNames \cup {"HQ-Scanner-01", "DMZ-Scanner-01"}

EvidenceInit ==
    /\ ServiceIdle
    /\ scanners = <<>> /\ assets = <<>> /\ scans = <<>>
    /\ credentials = <<>> /\ networks = <<>>
    /\ AnalyzerInit
    /\ EngineIdle
    /\ name_list \in SeqsUpTo(NameInputs, MaxItems)
    /\ evidence_text = Evidence("none", <<>>, 0)
    /\ pc = "names_given"

Truncate ==
    /\ pc = "names_given"
    /\ evidence_text' = _truncate_evidence(name_list, 5)
    /\ pc' = "truncated"
    /\ UNCHANGED <<inputs, now, findings, counter, calls, returned, metrics,
                   score, level, recs, service, steps, name_list>>

EvidenceNext == Truncate

EvidenceSpec == EvidenceInit /\ [][EvidenceNext]_vars

----------------------------------------------------------------------------
(* Properties *)

\* The first run_all_checks call of the analyzer has returned
FirstRunDone == calls = 1 /\ pc \in {"returned", "scored", "recommended"}

Titled(fs, text) == SelectSeq(fs, LAMBDA f : f.title.text = text)

InCategory(fs, category) == SelectSeq(fs, LAMBDA f : f.category = category)

HowMany(fs, sev) == Cardinality({i \in 1..Len(fs) : fs[i].severity = sev})

SeveritiesOf(fs) == [i \in 1..Len(fs) |-> fs[i].severity]

\* C1: the findings of one analyzer carry pairwise distinct ids, zero padded to
\* at least three digits, whose numbers increase strictly in emission order;
\* the i-th finding carries the number i, whichever checks fired.
C1_IdsUniqueIncreasing ==
    \A i \in 1..Len(findings) :
        /\ Len(findings[i].id) >= 3
        /\ IdNumber(findings[i].id) = i
        /\ \A j \in 1..Len(findings) :
              i < j => /\ findings[i].id # findings[j].id
                       /\ IdNumber(findings[i].id) < IdNumber(findings[j].id)

\* A first run in which four or more findings were emitted while the scanner
\* checks stayed silent
C1_Witness ==
    /\ FirstRunDone
    /\ Len(findings) >= 4
    /\ InCategory(findings, SCANNER_HEALTH) = <<>>

\* C2: the score is in [1.0, 5.0], and appending any one finding to the list
\* never gives a higher score at the same metrics.
C2_ScoreBoundedMonotone ==
    pc = "scored" =>
        /\ 100 <= score /\ score <= 500
        /\ \A c \in FindingCategory, sev \in Severity :
              calculate(Append(findings, AFinding(Len(findings) + 1, c, sev)),
                        metrics)[1] <= score

\* A scored list whose score is strictly inside the range, so that one more
\* finding can move it
C2_Witness ==
    /\ pc = "scored"
    /\ Len(findings) >= 2
    /\ 100 < score /\ score < 350

\* C3: the priorities of the returned recommendations are 1, 2, ..., N in list
\* order, N being the number of distinct categories among the findings.
C3_PrioritiesContiguous ==
    pc = "recommended" =>
        /\ Len(recs) = Cardinality({findings[i].category : i \in 1..Len(findings)})
        /\ \A i \in 1..Len(recs) : recs[i].priority = i

\* Three categories whose most severe findings are Critical, Medium and Info:
\* the per-group priorities 1, 3, 5 are not contiguous
C3_Witness ==
    /\ pc = "recommended"
    /\ Len(recs) = 3
    /\ {Critical, Medium, Info} \subseteq {findings[i].severity : i \in 1..Len(findings)}
    /\ Len(findings) = 3

\* C4 (as claimed): a second run_all_checks on the unchanged inputs returns a
\* list of the same length as the first run's, with the same title, category
\* and severity at every position.
C4_RerunIdentical ==
    (pc = "returned" /\ calls = 2) =>
        /\ Len(returned[2]) = Len(returned[1])
        /\ \A i \in 1..Len(returned[1]) :
              /\ returned[2][i].title = returned[1][i].title
              /\ returned[2][i].category = returned[1][i].category
              /\ returned[2][i].severity = returned[1][i].severity

\* C5: no step of run_all_checks changes the five collections or a record in
\* them, and generate leaves the findings list it was given as it was.
C5_InputsNeverMutated ==
    [][/\ inputs' = inputs
       /\ (pc = "scored" => findings' = findings)]_vars

\* Recommendations were generated from a list that a sort by severity would
\* reorder (offline High before unlinked Critical)
C5_Witness ==
    /\ pc = "recommended"
    /\ scanners # <<>>
    /\ SortBySeverity(findings) # findings

\* C6: the score is clamp(3.5 - 1.0*#Critical - 0.5*#High - 0.25*#Medium
\* - 0.1*#Low + bonus, 1.0, 5.0) to two decimals, the bonus being 0.5 from 90%,
\* 0.25 from 70% and 0 below or without the metric; [Critical, Critical, High]
\* at 95% scores 1.5, level Developing.
C6_ScoreFormula ==
    pc = "scored" =>
        LET pct == IF "authenticated_scans_pct" \in DOMAIN metrics
                   THEN metrics.authenticated_scans_pct ELSE 0
            bonus == CASE pct >= 900 -> 500
                       [] pct >= 700 /\ pct < 900 -> 250
                       [] OTHER -> 0
            raw == 3500 - 1000 * HowMany(findings, Critical)
                        - 500 * HowMany(findings, High)
                        - 250 * HowMany(findings, Medium)
                        - 100 * HowMany(findings, Low) + bonus
            clamped == IF raw < 1000 THEN 1000 ELSE IF raw > 5000 THEN 5000 ELSE raw
        IN  /\ 10 * score = clamped
            /\ (SeveritiesOf(findings) = <<Critical, Critical, High>> /\ pct = 950)
                  => (score = 150 /\ level = "Developing")

C6_Witness ==
    /\ pc = "scored"
    /\ SeveritiesOf(findings) = <<Critical, Critical, High>>
    /\ "authenticated_scans_pct" \in DOMAIN metrics
    /\ metrics.authenticated_scans_pct = 950
    /\ score = 150

\* C7: the level is Optimized iff score >= 4.5, Managed iff 3.5 <= score < 4.5,
\* Defined iff 2.5 <= score < 3.5, Developing iff 1.5 <= score < 2.5, Initial
\* iff score < 1.5: one level per score, computed from the returned score.
C7_LevelMapping ==
    pc \in {"scored", "leveled"} =>
        /\ level \in MaturityLevel
        /\ (level = "Optimized" <=> score >= 450)
        /\ (level = "Managed" <=> (350 <= score /\ score < 450))
        /\ (level = "Defined" <=> (250 <= score /\ score < 350))
        /\ (level = "Developing" <=> (150 <= score /\ score < 250))
        /\ (level = "Initial" <=> score < 150)

\* _level on the boundary 4.5
C7_Witness == pc = "leveled" /\ score = 450 /\ level = "Optimized"

\* The four-scanner scenario with no assets, scans or networks
C8_FourScanners ==
    /\ FirstRunDone
    /\ scanners \in FourScanners
    /\ assets = <<>> /\ scans = <<>> /\ networks = <<>>

\* The scenario with the credentials list empty too
C8_Scenario == C8_FourScanners /\ credentials = <<>>

\* The offline finding is there iff some scanner is not "on", the unlinked
\* finding iff some scanner is not linked, at most one of each
C8_General ==
    FirstRunDone =>
        /\ Len(Titled(findings, "Scanner(s) Offline")) =
              (IF \E i \in 1..Len(scanners) : scanners[i].status # "on" THEN 1 ELSE 0)
        /\ Len(Titled(findings, "Scanner(s) Not Linked to TVM")) =
              (IF \E i \in 1..Len(scanners) : scanners[i].linked # TRUE THEN 1 ELSE 0)

C9_CriticalIffOverHalf ==
    FirstRunDone =>
        LET a == Cardinality({i \in 1..Len(scans) : ~IsGhost(scans[i])})
            u == Cardinality({i \in 1..Len(scans) :
                                ~IsGhost(scans[i]) /\ LacksCredentials(scans[i])})
            fs == Titled(findings, "Active Scan(s) Without Credentials")
        IN  /\ Len(fs) = (IF u >= 1 THEN 1 ELSE 0)
            /\ u >= 1 =>
                  /\ fs[1].severity = (IF 2 * u > a THEN Critical ELSE High)
                  /\ fs[1].description.nums[1] = u
                  /\ fs[1].description.nums[2] = a
                  /\ fs[1].description.nums[4] = a - u

\* Ten scans, six of them without credential enablement, no ghost
C10_Scenario ==
    /\ FirstRunDone
    /\ Len(scans) = 10
    /\ Cardinality({i \in 1..10 : LacksCredentials(scans[i])}) = 6
    /\ \A i \in 1..10 : ~IsGhost(scans[i])

\* C10 (as claimed): in the scenario the findings hold exactly one Credential
\* Coverage finding, and it is Critical.
C10_OneCredentialCoverageFinding ==
    C10_Scenario =>
        /\ Len(InCategory(findings, CREDENTIAL_COVERAGE)) = 1
        /\ InCategory(findings, CREDENTIAL_COVERAGE)[1].severity = Critical

\* C10 (amended): in the scenario the credential-coverage check emits exactly
\* one finding, Critical; it is the only Credential Coverage finding when the
\* credentials list holds a Windows and an SSH type, and with an empty
\* credentials list the High "No Shared Credentials Configured" follows it.
C10_OneUnauthenticatedFinding ==
    C10_Scenario =>
        LET cc == InCategory(findings, CREDENTIAL_COVERAGE)
        IN  /\ Len(Titled(findings, "Active Scan(s) Without Credentials")) = 1
            /\ Len(cc) >= 1
            /\ cc[1].title.text = "Active Scan(s) Without Credentials"
            /\ cc[1].severity = Critical
            /\ (credentials # <<>> /\ Missing(credentials) = <<>>) => Len(cc) = 1
            /\ credentials = <<>> =>
                  /\ Len(cc) = 2
                  /\ cc[2].title.text = "No Shared Credentials Configured"
                  /\ cc[2].severity = High

\* The scenario with Windows and SSH credentials configured
C10_Witness ==
    /\ C10_Scenario
    /\ credentials = <<CredWindows, CredSsh>>

\* The assets whose last_seen is more than 90 days old (or cannot be read)
C11_Zombies ==
    {i \in 1..Len(assets) : days_since(Get(assets[i], "last_seen", NoTs), now) > 90}

\* C11 (as claimed): when some asset is unseen for more than 90 days, exactly
\* one Asset Coverage zombie finding is emitted, Critical iff the zombies are
\* more than 30% of the assets and High otherwise.
C11_ZombieCriticalIffOver30 ==
    FirstRunDone =>
        LET z == Cardinality(C11_Zombies)
            fs == Titled(findings, "Zombie Asset(s) - No Activity >90 Days")
        IN  /\ Len(fs) = (IF z >= 1 THEN 1 ELSE 0)
            /\ z >= 1 =>
                  /\ fs[1].category = ASSET_COVERAGE
                  /\ fs[1].severity =
                        (IF 10 * z > 3 * Len(assets) THEN Critical ELSE High)

\* The credential families the types of the list cover
C12_HasWindows == \E i \in 1..Len(credentials) : _ctype(credentials[i]) \in WindowsTypes

C12_HasSsh == \E i \in 1..Len(credentials) : _ctype(credentials[i]) \in SshTypes

\* C12: the credential-type check emits at most one finding: with no
\* credentials the High "No Shared Credentials Configured"; with some, one
\* Medium finding naming every absent family iff Windows or SSH is absent,
\* and none when both are present; only SSH types name Windows as missing.
C12_CredentialTypeFinding ==
    FirstRunDone =>
        LET none == Titled(findings, "No Shared Credentials Configured")
            miss == Titled(findings, "Missing Credential Types")
            absent == (IF C12_HasWindows THEN <<>> ELSE <<"Windows">>)
                      \o (IF C12_HasSsh THEN <<>> ELSE <<"SSH/Linux">>)
        IN  /\ Len(none) + Len(miss) <= 1
            /\ credentials = <<>> =>
                  /\ Len(none) = 1
                  /\ none[1].severity = High
                  /\ none[1].category = CREDENTIAL_COVERAGE
            /\ credentials # <<>> =>
                  /\ none = <<>>
                  /\ Len(miss) = 1 <=> (~C12_HasWindows \/ ~C12_HasSsh)
                  /\ Len(miss) = 1 =>
                        /\ miss[1].severity = Medium
                        /\ miss[1].category = CREDENTIAL_COVERAGE
                        /\ miss[1].title.names = absent
            /\ (credentials # <<>>
                  /\ \A i \in 1..Len(credentials) : _ctype(credentials[i]) = "SSH") =>
                  /\ Len(miss) = 1
                  /\ miss[1].title.names = <<"Windows">>

\* A first run over a credentials list holding only an SSH type
C12_Witness ==
    /\ FirstRunDone
    /\ credentials = <<CredSsh>>
    /\ Len(Titled(findings, "Missing Credential Types")) = 1

\* The exceptions a check can leave run_all_checks with
C14_Exceptions == {"KeyError", "AttributeError", "ZeroDivisionError"}

\* Some selected record lacks the name the check reads
C14_NamelessRecord ==
    \/ \E i \in 1..Len(scanners) : "name" \notin DOMAIN scanners[i]
    \/ \E i \in 1..Len(scans) : "name" \notin DOMAIN scans[i]
    \/ \E i \in 1..Len(networks) : "name" \notin DOMAIN networks[i]

\* Some scan's last_run is a non-zero number
C14_NumericLastRun ==
    \E i \in 1..Len(scans) : Get(scans[i], "last_run", NoTs).k = "num"

\* C14: no check divides by zero; a run raises only over a malformed record
\* that is present, never over an empty collection; an empty collection
\* brings none of its findings; the engines complete on an empty findings
\* list; the service's two percentages are 0 for empty scanners or scans.
C14_EmptyCollectionsSafe ==
    /\ pc # "ZeroDivisionError"
    /\ pc = "KeyError" => C14_NamelessRecord
    /\ pc = "AttributeError" => C14_NumericLastRun
    /\ FirstRunDone =>
          /\ scanners = <<>> => InCategory(findings, SCANNER_HEALTH) = <<>>
          /\ scans = <<>> =>
                /\ Titled(findings, "Ghost Scan(s) - Never Executed") = <<>>
                /\ Titled(findings, "Active Scan(s) Without Credentials") = <<>>
                /\ InCategory(findings, SCAN_POLICY) = <<>>
          /\ assets = <<>> =>
                /\ InCategory(findings, TAG_MANAGEMENT) = <<>>
                /\ \A i \in 1..Len(findings) :
                      findings[i].category = ASSET_COVERAGE =>
                          findings[i].title.text \in
                              {"Only Default Network Configured",
                               "Network(s) With No Assets"}
          /\ networks = <<>> =>
                /\ Titled(findings, "Only Default Network Configured") = <<>>
                /\ Titled(findings, "Network(s) With No Assets") = <<>>
    /\ pc \in {"scored", "recommended"} =>
          /\ scanners = <<>> => metrics.scanner_health_pct = 0
          /\ scans = <<>> => metrics.authenticated_scans_pct = 0
          /\ (findings = <<>> /\ scans = <<>>) => (score = 350 /\ level = "Managed")
    /\ (pc = "recommended" /\ findings = <<>>) => recs = <<>>

\* A run over five empty collections but the credentials, every check silent,
\* carried through both engines
C14_Witness ==
    /\ pc = "recommended"
    /\ scanners = <<>> /\ scans = <<>> /\ assets = <<>> /\ networks = <<>>
    /\ findings = <<>>
    /\ recs = <<>>

\* The scans _check_scan_frequency counts as stale: considered, and last run
\* more than 30 days ago or at a time that cannot be read
C15_StaleScans ==
    {i \in 1..Len(scans) :
        /\ IsConsidered(scans[i])
        /\ LET t == Get(scans[i], "last_run", NoTs)
           IN  t.k = "iso" => now - t.day > 30}

\* The assets whose last_seen cannot be read
C15_UnreadableSeen ==
    {i \in 1..Len(assets) : Get(assets[i], "last_seen", NoTs).k # "iso"}

\* C15 (as claimed): whatever the shape of a last_seen or last_run value, the
\* two checks do not raise; an asset whose last_seen cannot be read counts as
\* a zombie and a scan whose last_run cannot be read counts as stale, the
\* other records being counted as usual.
C15_TimestampsNeverRaise ==
    /\ (~C14_NamelessRecord) => pc \notin C14_Exceptions
    /\ FirstRunDone =>
          LET zs == Titled(findings, "Zombie Asset(s) - No Activity >90 Days")
              ss == Titled(findings, "Scan(s) Not Run in 30+ Days")
          IN  /\ C15_UnreadableSeen \subseteq C11_Zombies
              /\ C11_Zombies # {} =>
                    (Len(zs) = 1 /\ zs[1].title.nums[1] = Cardinality(C11_Zombies))
              /\ Len(ss) = (IF C15_StaleScans # {} THEN 1 ELSE 0)
              /\ C15_StaleScans # {} =>
                    ss[1].title.nums[1] = Cardinality(C15_StaleScans)

\* C16 (as claimed): a record that lacks its name field does not make the
\* analyzer raise.
C16_MalformedNeverRaise == pc # "KeyError"

\* C13 (as claimed): the service's analyzer evaluates the credentials and the
\* networks of the data source: with credential sets covering Windows and
\* SSH the summary has no "No Shared Credentials Configured" finding, and
\* with a single default network it has "Only Default Network Configured".
C13_AllFiveCollectionsEvaluated ==
    summary.built =>
        /\ ((\E i \in 1..Len(client.credentials) :
                  _ctype(client.credentials[i]) \in WindowsTypes)
             /\ (\E i \in 1..Len(client.credentials) :
                  _ctype(client.credentials[i]) \in SshTypes)) =>
              Titled(summary.findings, "No Shared Credentials Configured") = <<>>
        /\ (Len(client.networks) = 1 /\ IsDefault(client.networks[1])) =>
              Len(Titled(summary.findings, "Only Default Network Configured")) = 1

\* The six steps of a run, in the order of the code
C17_Steps ==
    <<"collect", "analyze", "maturity", "recommendations", "summary", "narrative">>

\* C17, the states: the completed steps are a prefix of collect, analyze,
\* maturity, recommendations, summary, narrative; after a collection failure
\* nothing was analyzed, summarized or narrated; a finished run has its
\* summary, and when the provider is disabled or failed the narrative is the
\* fallback text, a function of the summary.
C17_States ==
    /\ \E k \in 0..Len(C17_Steps) : steps = SubSeq(C17_Steps, 1, k)
    /\ pc = "CollectionError" =>
          /\ steps = <<>>
          /\ calls = 0 /\ findings = <<>>
          /\ ~summary.built
          /\ summary.executive_narrative.kind = "None"
    /\ pc = "done" =>
          /\ steps = C17_Steps
          /\ summary.built
          /\ summary.findings = findings
          /\ summary.executive_narrative.kind \in {"fallback", "provider"}
          /\ ai.outcome \in {"skipped", "error"} =>
                summary.executive_narrative =
                    [kind |-> "fallback",
                     findings |-> Len(summary.findings),
                     critical |-> HowMany(summary.findings, Critical),
                     level |-> summary.maturity_level,
                     score |-> summary.maturity_score]

\* C17: the steps of AssessmentService.run occur in the order collect,
\* analyze, maturity, recommendations, summary, narrative; a collection
\* failure ends the run with no analysis, summary or narrative; the narrative
\* step always ends the run with the summary returned, never with an
\* exception, and a disabled or failed provider gives the fallback text.
C17_OrderAndFallback ==
    /\ []C17_States
    /\ [][/\ pc = "summarized" => pc' = "done"
          /\ pc # "CollectionError"]_vars

\* A finished run whose enabled provider failed, over a summary that holds
\* a Critical finding
C17_Witness ==
    /\ pc = "done"
    /\ ai.enabled /\ ai.outcome = "error"
    /\ summary.executive_narrative.kind = "fallback"
    /\ summary.executive_narrative.critical >= 1

\* The category a recommendation was built for
C18_CategoryOf(r) == r.title.names[1]

\* The position in the input of the finding that carries the id
C18_Position(id) == CHOOSE i \in 1..Len(findings) : findings[i].id = id

\* The rank of a finding's severity: Critical 1, High 2, Medium 3, Low 4,
\* anything else 5
C18_Rank(f) ==
    CASE f.severity = Critical -> 1
      [] f.severity = High -> 2
      [] f.severity = Medium -> 3
      [] f.severity = Low -> 4
      [] OTHER -> 5

\* C18: one Recommendation per category that has a finding; its findings_refs
\* are that category's ids by severity rank ascending, equal ranks in input
\* order; its description has min(3, group size) lines, those of the first
\* findings of that order.
C18_OnePerCategorySortedRefs ==
    pc = "recommended" =>
        /\ \A i \in 1..Len(findings) :
              Cardinality({k \in 1..Len(recs) :
                             C18_CategoryOf(recs[k]) = findings[i].category}) = 1
        /\ \A k \in 1..Len(recs) :
              LET r == recs[k]
                  refs == r.findings_refs
                  group == {i \in 1..Len(findings) :
                              findings[i].category = C18_CategoryOf(r)}
              IN  /\ group # {}
                  /\ Len(refs) = Cardinality(group)
                  /\ {C18_Position(refs[n]) : n \in 1..Len(refs)} = group
                  /\ \A a, b \in 1..Len(refs) :
                        a < b =>
                          LET fa == findings[C18_Position(refs[a])]
                              fb == findings[C18_Position(refs[b])]
                          IN  \/ C18_Rank(fa) < C18_Rank(fb)
                              \/ /\ C18_Rank(fa) = C18_Rank(fb)
                                 /\ C18_Position(refs[a]) < C18_Position(refs[b])
                  /\ Len(r.description) = Min(3, Cardinality(group))
                  /\ \A n \in 1..Len(r.description) :
                        LET f == findings[C18_Position(refs[n])]
                        IN  /\ r.description[n].severity = f.severity
                            /\ r.description[n].recommendation = f.recommendation

\* A group of four findings that the sort reorders and in which two findings
\* of equal rank keep their input order
C18_Witness ==
    /\ pc = "recommended"
    /\ Len(recs) = 1
    /\ Len(recs[1].findings_refs) = 4
    /\ Len(recs[1].description) = 3
    /\ SeveritiesOf(findings) = <<Low, Critical, Low, High>>

\* The rank of the most severe finding of a recommendation's category
C19_TopRank(r) ==
    LET ranks == {C18_Rank(findings[i]) :
                    i \in {j \in 1..Len(findings) :
                              findings[j].category = C18_CategoryOf(r)}}
    IN  CHOOSE m \in ranks : \A n \in ranks : m <= n

\* Where the category of a recommendation first appears in the input
C19_FirstSeen(r) ==
    CHOOSE i \in 1..Len(findings) :
        /\ findings[i].category = C18_CategoryOf(r)
        /\ \A j \in 1..(i - 1) : findings[j].category # C18_CategoryOf(r)

\* C19: the recommendations are ordered by the rank of their most severe
\* finding, equal ranks by first appearance of the category in the input, and
\* each priority is the 1-based position, not the rank the sort used.
C19_OrderedByTopRank ==
    pc = "recommended" =>
        /\ \A i, j \in 1..Len(recs) :
              i < j =>
                \/ C19_TopRank(recs[i]) < C19_TopRank(recs[j])
                \/ /\ C19_TopRank(recs[i]) = C19_TopRank(recs[j])
                   /\ C19_FirstSeen(recs[i]) < C19_FirstSeen(recs[j])
        /\ \A i \in 1..Len(recs) : recs[i].priority = i

\* Three categories, the first seen not the most severe, two of them equal in
\* rank, the last one with a rank that is not its position
C19_Witness ==
    /\ pc = "recommended"
    /\ Len(recs) = 3
    /\ C18_CategoryOf(recs[1]) # findings[1].category
    /\ C19_TopRank(recs[2]) = C19_TopRank(recs[3])
    /\ C19_TopRank(recs[3]) # 3

\* C20: the type of a Recommendation follows from its category alone:
\* Scanner Health and Scan Policy quick-win, Credential Coverage and Asset
\* Coverage strategic, Tag Management roadmap, any other category strategic.
C20_TypeByCategory ==
    pc = "recommended" =>
        \A k \in 1..Len(recs) :
            LET c == C18_CategoryOf(recs[k])
            IN  recs[k].type =
                  CASE c = SCANNER_HEALTH -> "quick-win"
                    [] c = SCAN_POLICY -> "quick-win"
                    [] c = CREDENTIAL_COVERAGE -> "strategic"
                    [] c = ASSET_COVERAGE -> "strategic"
                    [] c = TAG_MANAGEMENT -> "roadmap"
                    [] OTHER -> "strategic"

\* Recommendations for a Program Maturity group and a Tag Management group,
\* one of them holding a Critical finding
C20_Witness ==
    /\ pc = "recommended"
    /\ \E k \in 1..Len(recs) :
          C18_CategoryOf(recs[k]) = PROGRAM_MATURITY /\ recs[k].type = "strategic"
    /\ \E k \in 1..Len(recs) :
          C18_CategoryOf(recs[k]) = TAG_MANAGEMENT /\ recs[k].type = "roadmap"
    /\ HowMany(findings, Critical) >= 1

\* The runs that returned before the one in progress (or just finished)
C21_Earlier == IF pc = "done" THEN Len(history) - 1 ELSE Len(history)

\* C21: across AssessmentService.run calls, the findings of every run are
\* numbered from F-001 without a gap and hold nothing of an earlier run: a
\* run over the data of an earlier run returns that run's findings again,
\* and a run over an emptied tenant returns the one finding an empty tenant
\* has.
C21_FreshAnalyzerPerRun ==
    /\ \A k \in 1..Len(history) :
          \A i \in 1..Len(history[k].summary.findings) :
              IdNumber(history[k].summary.findings[i].id) = i
    /\ Len(steps) >= 2 =>
          /\ findings # <<>> => findings[1].id = <<0, 0, 1>>
          /\ \A i \in 1..Len(findings) : IdNumber(findings[i].id) = i
          /\ \A k \in 1..C21_Earlier :
                history[k].data = client => findings = history[k].summary.findings
          /\ client = NoClient =>
                /\ Len(findings) = 1
                /\ findings[1].title.text = "No Shared Credentials Configured"

\* A second run over an emptied tenant, after a first run that returned four
\* or more findings
C21_Witness ==
    /\ pc = "done"
    /\ Len(history) = 2
    /\ Len(history[1].summary.findings) >= 4
    /\ history[1].data # NoClient
    /\ history[2].data = NoClient
    /\ Len(history[2].summary.findings) = 1

\* The networks that are not flagged default and have no asset assigned
C22_EmptyNonDefault ==
    {i \in 1..Len(networks) :
        /\ ~("is_default" \in DOMAIN networks[i] /\ networks[i].is_default = TRUE)
        /\ ("asset_count" \in DOMAIN networks[i] => networks[i].asset_count = 0)}

\* Exactly one network, flagged default
C22_SingleDefault ==
    /\ Len(networks) = 1
    /\ "is_default" \in DOMAIN networks[1]
    /\ networks[1].is_default = TRUE

\* C22: the network check emits at most one finding: none without networks;
\* one Medium Asset Coverage finding iff there is exactly one network and it
\* is default; otherwise one Low Asset Coverage finding iff some non-default
\* network has zero assets (an absent asset_count counting as zero); nothing
\* in the remaining cases.
C22_NetworkFinding ==
    FirstRunDone =>
        LET only == Titled(findings, "Only Default Network Configured")
            empty == Titled(findings, "Network(s) With No Assets")
        IN  /\ Len(only) + Len(empty) <= 1
            /\ networks = <<>> => (only = <<>> /\ empty = <<>>)
            /\ Len(only) = 1 <=> C22_SingleDefault
            /\ Len(only) = 1 =>
                  (only[1].severity = Medium /\ only[1].category = ASSET_COVERAGE)
            /\ Len(empty) = 1 <=> (~C22_SingleDefault /\ C22_EmptyNonDefault # {})
            /\ Len(empty) = 1 =>
                  /\ empty[1].severity = Low
                  /\ empty[1].category = ASSET_COVERAGE
                  /\ empty[1].title.nums = <<Cardinality(C22_EmptyNonDefault)>>

\* A run over the default network and a network without an asset_count
C22_Witness ==
    /\ FirstRunDone
    /\ networks = <<NetDefault, NetNoCount>>
    /\ Len(Titled(findings, "Network(s) With No Assets")) = 1

\* A run over two networks both flagged default: the check stays silent
C22_WitnessAllDefault ==
    /\ FirstRunDone
    /\ networks = <<NetDefault, NetDefault>>
    /\ \A i \in 1..Len(findings) :
          findings[i].title.text \notin {"Only Default Network Configured",
                                         "Network(s) With No Assets"}

\* The four tiers of the staleness check, as sets of positions in assets
C23_Unreadable(i) == Get(assets[i], "last_seen", NoTs).k # "iso"

C23_Days(i) == now - assets[i].last_seen.day

C23_NoAuthDate(i) ==
    \/ "last_authenticated_scan_date" \notin DOMAIN assets[i]
    \/ assets[i].last_authenticated_scan_date.k \in {"none", "empty"}

C23_PluginResults(i) ==
    "has_plugin_results" \in DOMAIN assets[i] /\ assets[i].has_plugin_results = TRUE

C23_Zombie == {i \in 1..Len(assets) : C23_Unreadable(i) \/ C23_Days(i) > 90}

C23_Stale ==
    {i \in 1..Len(assets) :
        ~C23_Unreadable(i) /\ 30 < C23_Days(i) /\ C23_Days(i) <= 90}

C23_Cloud ==
    {i \in 1..Len(assets) :
        /\ "source" \in DOMAIN assets[i]
        /\ assets[i].source \in {"CloudDiscoveryConnector", "AWS", "AZURE", "GCP"}
        /\ C23_NoAuthDate(i)
        /\ ~C23_PluginResults(i)}

C23_NeverAuth == {i \in 1..Len(assets) : C23_NoAuthDate(i) /\ C23_PluginResults(i)}

\* The titles of the four staleness findings, in the order of the code
C23_Titles ==
    <<"Zombie Asset(s) - No Activity >90 Days",
      "Stale Asset(s) - No Activity 30-90 Days",
      "Cloud Asset(s) Never Scanned",
      "Asset(s) Never Authenticated">>

\* C23: an asset is a zombie iff unseen for more than 90 days or its
\* last_seen is missing or unreadable, stale iff unseen for more than 30 and
\* at most 90 days; the zombie, stale and cloud-unscanned tiers each bring
\* exactly one finding, counting the tier, iff the tier is non-empty, and the
\* never-authenticated tier iff it holds more than 3 assets; the findings
\* come in the order zombie, stale, cloud-unscanned, never-authenticated.
C23_StalenessTiers ==
    FirstRunDone =>
        LET F(n) == Titled(findings, C23_Titles[n])
            Counted(n, tier) ==
                Len(F(n)) = 1 /\ F(n)[1].title.nums[1] = Cardinality(tier)
            Place(text) == CHOOSE n \in 1..4 : C23_Titles[n] = text
            Mine == SelectSeq(findings,
                              LAMBDA f : \E n \in 1..4 : C23_Titles[n] = f.title.text)
        IN  /\ C23_Zombie \cap C23_Stale = {}
            /\ C23_Cloud \cap C23_NeverAuth = {}
            /\ IF C23_Zombie # {} THEN Counted(1, C23_Zombie) ELSE F(1) = <<>>
            /\ IF C23_Stale # {} THEN Counted(2, C23_Stale) ELSE F(2) = <<>>
            /\ IF C23_Cloud # {} THEN Counted(3, C23_Cloud) ELSE F(3) = <<>>
            /\ IF Cardinality(C23_NeverAuth) > 3
                  THEN Counted(4, C23_NeverAuth) ELSE F(4) = <<>>
            /\ \A a, b \in 1..Len(Mine) :
                  a < b => Place(Mine[a].title.text) < Place(Mine[b].title.text)

\* A run in which all four tiers bring their finding and the zombies are
\* also the never-authenticated assets
C23_Witness ==
    /\ FirstRunDone
    /\ Len(assets) = 5
    /\ C23_Zombie = C23_NeverAuth
    /\ Cardinality(C23_Zombie) = 4
    /\ C23_Stale = C23_Cloud
    /\ Cardinality(C23_Stale) = 1
    /\ \A n \in 1..4 : Len(Titled(findings, C23_Titles[n])) = 1

\* A run over an asset last seen exactly 90 days ago: stale, not a zombie
C23_WitnessBoundary ==
    /\ FirstRunDone
    /\ Len(assets) = 1
    /\ ~C23_Unreadable(1) /\ C23_Days(1) = 90
    /\ Len(Titled(findings, C23_Titles[2])) = 1
    /\ Titled(findings, C23_Titles[1]) = <<>>

\* The assets without a tag
C24_Untagged ==
    {i \in 1..Len(assets) : "tags" \notin DOMAIN assets[i] \/ assets[i].tags = <<>>}

\* C24 (as claimed): exactly one Tag Management finding iff some asset has no
\* tags, Medium when the untagged assets are below 50% of the assets and High
\* otherwise.
C24_TagSeverityByHalf ==
    FirstRunDone =>
        LET u == Cardinality(C24_Untagged)
            fs == InCategory(findings, TAG_MANAGEMENT)
        IN  /\ Len(fs) = (IF u >= 1 THEN 1 ELSE 0)
            /\ u >= 1 =>
                  fs[1].severity = (IF 2 * u < Len(assets) THEN Medium ELSE High)

\* The scans the frequency check counts: named, not explicitly disabled, and
\* never run, last run more than 30 days ago, or run at an unreadable time
C25_Stale ==
    {i \in 1..Len(scans) :
        /\ "name" \in DOMAIN scans[i] /\ scans[i].name \notin {"", "None"}
        /\ ~("enabled" \in DOMAIN scans[i] /\ scans[i].enabled = FALSE)
        /\ \/ "last_run" \notin DOMAIN scans[i]
           \/ scans[i].last_run.k # "iso"
           \/ now - scans[i].last_run.day > 30}

\* C25: exactly one Scan Policy finding iff some named, not explicitly
\* disabled scan has no last_run, a last_run more than 30 days old or one that
\* does not parse; it counts those scans, ghost scans among them, and is
\* Critical if they are more than 100 and High otherwise.
C25_ScanFrequencyFinding ==
    FirstRunDone =>
        LET n == Cardinality(C25_Stale)
            fs == InCategory(findings, SCAN_POLICY)
        IN  /\ Len(fs) = (IF n >= 1 THEN 1 ELSE 0)
            /\ n >= 1 =>
                  /\ fs[1].title.nums = <<n>>
                  /\ fs[1].severity = (IF n > 100 THEN Critical ELSE High)

\* A run over exactly 100 stale scans
C25_Witness ==
    /\ FirstRunDone
    /\ Cardinality(C25_Stale) = 100
    /\ Len(InCategory(findings, SCAN_POLICY)) = 1
    /\ InCategory(findings, SCAN_POLICY)[1].severity = High

\* A run over a ghost scan and nothing else stale: the ghost is counted
C25_WitnessGhost ==
    /\ FirstRunDone
    /\ scans = <<ScanGhost, ScanAuth>>
    /\ InCategory(findings, SCAN_POLICY)[1].title.nums = <<1>>

\* The names of the list that are neither blank nor UUID-shaped, in order
C26_Readable == SelectSeq(name_list, LAMBDA n : n \notin BlankNames \cup UuidNames)

\* C26: the evidence shows no blank and no UUID-shaped name; with no
\* readable name it gives the number of items; otherwise it shows the first
\* min(5, #readable) readable names in input order and, when these are fewer
\* than the items, a remainder equal to the items minus the names shown.
C26_EvidenceTruncation ==
    pc = "truncated" =>
        LET shown == evidence_text.names
        IN  /\ \A k \in 1..Len(shown) : shown[k] \notin BlankNames \cup UuidNames
            /\ C26_Readable = <<>> =>
                  /\ evidence_text.kind = "count"
                  /\ evidence_text.n = Len(name_list)
                  /\ shown = <<>>
            /\ C26_Readable # <<>> =>
                  /\ Len(shown) = Min(5, Len(C26_Readable))
                  /\ shown = SubSeq(C26_Readable, 1, Len(shown))
                  /\ Len(shown) < Len(name_list) =>
                        /\ evidence_text.kind = "sample_more"
                        /\ evidence_text.n = Len(name_list) - Len(shown)
                        /\ Len(shown) + evidence_text.n = Len(name_list)
                  /\ Len(shown) = Len(name_list) => evidence_text.kind = "sample"

\* Six items, five of them readable, a UUID-shaped one among them: all the
\* readable names are shown and the remainder is the item held back
C26_Witness ==
    /\ pc = "truncated"
    /\ Len(name_list) = 6
    /\ Len(C26_Readable) = 5
    /\ \E k \in 1..6 : name_list[k] \in UuidNames
    /\ evidence_text.kind = "sample_more"
    /\ evidence_text.n = 1

\* The positions of run_all_checks, in the order of the code
C27_Checks ==
    <<"scanner_health", "scanner_linking", "credential_coverage",
      "credentials_configured", "networks", "asset_staleness", "asset_tagging",
      "scan_frequency", "return">>

\* The place of a finding in that order, by its title; the ghost finding of
\* the credential-coverage check comes before its unauthenticated finding
C27_Stage(f) ==
    CASE f.title.text = "Scanner(s) Offline" -> 1
      [] f.title.text = "Scanner(s) Not Linked to TVM" -> 2
      [] f.title.text = "Ghost Scan(s) - Never Executed" -> 3
      [] f.title.text = "Active Scan(s) Without Credentials" -> 4
      [] f.title.text \in {"No Shared Credentials Configured",
                           "Missing Credential Types"} -> 5
      [] f.title.text \in {"Only Default Network Configured",
                           "Network(s) With No Assets"} -> 6
      [] f.title.text \in {"Zombie Asset(s) - No Activity >90 Days",
                           "Stale Asset(s) - No Activity 30-90 Days",
                           "Cloud Asset(s) Never Scanned",
                           "Asset(s) Never Authenticated"} -> 7
      [] f.title.text = "Assets Without Tags" -> 8
      [] f.title.text = "Scan(s) Not Run in 30+ Days" -> 9

\* In the list of the first run every finding of an earlier check comes
\* before, and has a smaller id than, every finding of a later check
C27_IdsFollowChecks ==
    (calls = 0 \/ FirstRunDone) =>
        \A i, j \in 1..Len(findings) :
            C27_Stage(findings[i]) < C27_Stage(findings[j]) =>
                /\ i < j
                /\ IdNumber(findings[i].id) < IdNumber(findings[j].id)

\* C27: run_all_checks runs scanner health, scanner linking, credential
\* coverage (ghost finding before unauthenticated finding), credential types,
\* networks, asset staleness, asset tagging, scan frequency in this order, so
\* that in the list of a run every finding of an earlier check has a smaller
\* id than every finding of a later check, whichever checks fire.
C27_FixedCheckOrder ==
    /\ []C27_IdsFollowChecks
    /\ [][\A k \in 1..8 :
             pc = C27_Checks[k] =>
                 pc' \in {C27_Checks[k + 1]} \cup C14_Exceptions]_vars

\* A first run in which the scanner checks stay silent while the ghost and
\* the unauthenticated finding and two later checks fire
C27_Witness ==
    /\ FirstRunDone
    /\ Len(findings) >= 4
    /\ C27_Stage(findings[1]) = 3
    /\ C27_Stage(findings[2]) = 4
    /\ C27_Stage(findings[Len(findings)]) = 9

\* C28: the score returned by calculate never exceeds 4.0, so the level is
\* never Optimized; with at least one Critical finding the score is at most
\* 3.0 and the level at most Defined.
C28_ScoreCeiling ==
    pc = "scored" =>
        /\ score <= 400
        /\ level # "Optimized"
        /\ HowMany(findings, Critical) >= 1 =>
              /\ score <= 300
              /\ level \in {"Initial", "Developing", "Defined"}

\* One Critical finding scored with the full coverage bonus: 3.0, Defined
C28_Witness ==
    /\ pc = "scored"
    /\ SeveritiesOf(findings) = <<Critical>>
    /\ "authenticated_scans_pct" \in DOMAIN metrics
    /\ metrics.authenticated_scans_pct >= 900
    /\ score = 300
    /\ level = "Defined"

\* No finding, or only Info findings, scored with the full bonus: 4.0
C28_WitnessCeiling ==
    /\ pc = "scored"
    /\ score = 400
    /\ level = "Managed"

\* C29: one run_all_checks call on a fresh analyzer emits at most 12
\* findings: at most 2 of the scanner checks, 2 of credential coverage, 1 of
\* credential types, 1 of networks, 4 of staleness, 1 of tagging, 1 of scan
\* frequency; none is Info or Program Maturity; generate over them returns at
\* most 5 recommendations.
C29_AtMostTwelveFindings ==
    /\ (calls = 0 \/ FirstRunDone) =>
          LET N(stages) == Cardinality({i \in 1..Len(findings) :
                                          C27_Stage(findings[i]) \in stages})
          IN  /\ Len(findings) <= 12
              /\ N({1, 2}) <= 2
              /\ N({3, 4}) <= 2
              /\ N({5}) <= 1
              /\ N({6}) <= 1
              /\ N({7}) <= 4
              /\ N({8}) <= 1
              /\ N({9}) <= 1
              /\ \A i \in 1..Len(findings) :
                    /\ findings[i].severity \in {Critical, High, Medium, Low}
                    /\ findings[i].category \in
                          {SCANNER_HEALTH, SCAN_POLICY, CREDENTIAL_COVERAGE,
                           ASSET_COVERAGE, TAG_MANAGEMENT}
    /\ (FirstRunDone /\ pc = "recommended") => Len(recs) <= 5

\* A run in which every check fires every finding it has: 12 findings, and
\* 5 recommendations generated from them
C29_Witness ==
    /\ FirstRunDone
    /\ pc = "recommended"
    /\ Len(findings) = 12
    /\ Len(recs) = 5

\* C30: the findings_refs of the recommendations partition the input
\* findings: each finding's id is in the findings_refs of exactly one
\* recommendation, the one of its category, exactly once; no other id
\* appears; the lengths of the findings_refs add up to the number of
\* findings.
C30_RefsPartitionFindings ==
    pc = "recommended" =>
        LET Refs(k) == recs[k].findings_refs
            Slots == {<<k, n>> : k \in 1..Len(recs), n \in 1..Len(findings)}
            Used == {sl \in Slots : sl[2] <= Len(Refs(sl[1]))}
        IN  /\ \A k \in 1..Len(recs) : Len(Refs(k)) <= Len(findings)
            /\ \A i \in 1..Len(findings) :
                  LET at == {sl \in Used : Refs(sl[1])[sl[2]] = findings[i].id}
                  IN  /\ Cardinality(at) = 1
                      /\ \A sl \in at :
                            C18_CategoryOf(recs[sl[1]]) = findings[i].category
            /\ \A sl \in Used :
                  \E i \in 1..Len(findings) : findings[i].id = Refs(sl[1])[sl[2]]
            /\ Cardinality(Used) = Len(findings)

\* Three findings in two categories, the first and the last in the same one
C30_Witness ==
    /\ pc = "recommended"
    /\ Len(findings) = 3
    /\ Len(recs) = 2
    /\ findings[1].category = findings[3].category
    /\ findings[1].category # findings[2].category

====
